---- MODULE Spec2Model ----
(***************************************************************************)
(* A model of pyrise (src/pyrise.py), a client of the Highrise XML API:    *)
(* the name conversions of class Highrise, the schema of every             *)
(* HighriseObject subclass, and the marshalling done by                    *)
(* HighriseObject.from_xml (wire element -> record), HighriseObject        *)
(* .__init__ (manual construction) and HighriseObject.save_xml (record ->  *)
(* wire element).                                                          *)
(*                                                                         *)
(* Python strings are sequences of one-character strings, so that the      *)
(* string operations of the source (capitalize, replace, slicing, int(),   *)
(* str(), strptime, strftime) are computed and not assumed.  Python values *)
(* are tagged records [t |-> <runtime type>, v |-> <payload>].  A call     *)
(* that may raise yields [exc |-> <exception or "none">, val |-> <value>]. *)
(***************************************************************************)
EXTENDS Integers, Sequences, FiniteSets, TLC

VARIABLES
    tzoffset,   \* Highrise._tzoffset
    now,        \* the reading of datetime.now(), in clock ticks
    made,       \* the last manual construction: cls(**kwargs)
    enc,        \* the last save_xml call
    dec,        \* the last from_xml call
    nm,         \* the last name conversion call
    cls_fields, \* the class attribute fields of the classes that rebuild it
    heap,       \* the dictionaries those attributes have been bound to
    thread,     \* the calls running concurrently, each at its own position
    rec,        \* the record the caller holds for the transport operations
    sent,       \* the requests the last operation handed to the transport
    last        \* the last operation on rec: its name and what it returned

mvars == <<tzoffset, now, made, enc, dec>>
cvars == <<cls_fields, heap, thread>>
tvars == <<rec, sent, last>>
vars == <<tzoffset, now, made, enc, dec, nm, cls_fields, heap, thread, rec, sent, last>>

----------------------------------------------------------------------------
(* Python values and results                                               *)

None == [t |-> "None", v |-> 0]
PyInt(n) == [t |-> "int", v |-> n]
PyBool(b) == [t |-> "bool", v |-> b]
PyStr(s) == [t |-> "str", v |-> s]
PyDatetime(n) == [t |-> "datetime", v |-> n]
PyList(s) == [t |-> "list", v |-> s]
PyObj(c, d) == [t |-> "obj", v |-> [d |-> d, cls |-> c]]

Ok(v) == [exc |-> "none", val |-> v]
Raise(e) == [exc |-> e, val |-> None]
IsOk(r) == r.exc = "none"

----------------------------------------------------------------------------
(* Characters and strings                                                  *)

LowerCase == <<"a", "b", "c", "d", "e", "f", "g", "h", "i", "j", "k", "l", "m",
               "n", "o", "p", "q", "r", "s", "t", "u", "v", "w", "x", "y", "z">>
UpperCase == <<"A", "B", "C", "D", "E", "F", "G", "H", "I", "J", "K", "L", "M",
               "N", "O", "P", "Q", "R", "S", "T", "U", "V", "W", "X", "Y", "Z">>
DigitChars == <<"0", "1", "2", "3", "4", "5", "6", "7", "8", "9">>

IsLower(c) == \E i \in 1..26 : LowerCase[i] = c
IsUpper(c) == \E i \in 1..26 : UpperCase[i] = c
IsDigit(c) == \E i \in 1..10 : DigitChars[i] = c

\* str.upper() and str.lower() on one character
Upper(c) == IF IsLower(c) THEN UpperCase[CHOOSE i \in 1..26 : LowerCase[i] = c] ELSE c
Lower(c) == IF IsUpper(c) THEN LowerCase[CHOOSE i \in 1..26 : UpperCase[i] = c] ELSE c

\* str.capitalize(): the first character upper-cased, the rest lower-cased
capitalize(s) == [i \in 1..Len(s) |-> IF i = 1 THEN Upper(s[i]) ELSE Lower(s[i])]

\* s[i:] with a 0-based start, as Python slices
SliceFrom(s, i) == SubSeq(s, i + 1, Len(s))

\* str.replace(old, new) for a one-character old and any new
RECURSIVE replace(_, _, _)
replace(s, old, new) ==
    IF s = <<>> THEN <<>>
    ELSE (IF Head(s) = old THEN new ELSE <<Head(s)>>) \o replace(Tail(s), old, new)

\* str.index(c), 0-based; the caller has checked that c occurs
index(s, c) == (CHOOSE i \in 1..Len(s) : s[i] = c /\ \A j \in 1..(i - 1) : s[j] # c) - 1

----------------------------------------------------------------------------
(* Highrise.key_to_class and Highrise.class_to_key                         *)

\* the loop of key_to_class: every "-x" becomes "X"; klass[ix + 1] raises
\* IndexError when the hyphen is the last character
RECURSIVE key_to_class_loop(_)
key_to_class_loop(klass) ==
    IF ~ \E i \in 1..Len(klass) : klass[i] = "-" THEN Ok(PyStr(klass))
    ELSE LET ix == index(klass, "-")
         IN  IF ix + 1 >= Len(klass) THEN Raise("IndexError")
             ELSE key_to_class_loop(SubSeq(klass, 1, ix)
                                    \o <<Upper(klass[ix + 2])>>
                                    \o SliceFrom(klass, ix + 2))

\* key_to_class without the capitalize() of its first statement
key_to_class_uncapitalized(key) == key_to_class_loop(key)

key_to_class(key) == key_to_class_loop(capitalize(key))

\* re.search(r'([A-Z])', key): the first upper-case letter, if any
HasUpper(key) == \E i \in 1..Len(key) : IsUpper(key[i])
FirstUpper(key) == key[CHOOSE i \in 1..Len(key) :
                         IsUpper(key[i]) /\ \A j \in 1..(i - 1) : ~ IsUpper(key[j])]

RECURSIVE class_to_key_loop(_)
class_to_key_loop(key) ==
    IF ~ HasUpper(key) THEN key
    ELSE LET char == FirstUpper(key)
         IN  class_to_key_loop(replace(key, char, <<"-", Lower(char)>>))

class_to_key(key) == SliceFrom(class_to_key_loop(key), 1)

----------------------------------------------------------------------------
(* The string literals of the source: each name with its characters        *)

Chars ==
   "id" :> <<"i", "d">> @@
   "label" :> <<"l", "a", "b", "e", "l">> @@
   "name" :> <<"n", "a", "m", "e">> @@
   "body" :> <<"b", "o", "d", "y">> @@
   "author_id" :> <<"a", "u", "t", "h", "o", "r", "_", "i", "d">> @@
   "subject_id" :> <<"s", "u", "b", "j", "e", "c", "t", "_", "i", "d">> @@
   "subject_type" :> <<"s", "u", "b", "j", "e", "c", "t", "_", "t", "y", "p", "e">> @@
   "subject_name" :> <<"s", "u", "b", "j", "e", "c", "t", "_", "n", "a", "m", "e">> @@
   "collection_id" :> <<"c", "o", "l", "l", "e", "c", "t", "i", "o", "n", "_", "i", "d">> @@
   "collection_type" :> <<"c", "o", "l", "l", "e", "c", "t", "i", "o", "n", "_", "t", "y", "p", "e">> @@
   "visible_to" :> <<"v", "i", "s", "i", "b", "l", "e", "_", "t", "o">> @@
   "owner_id" :> <<"o", "w", "n", "e", "r", "_", "i", "d">> @@
   "group_id" :> <<"g", "r", "o", "u", "p", "_", "i", "d">> @@
   "created_at" :> <<"c", "r", "e", "a", "t", "e", "d", "_", "a", "t">> @@
   "updated_at" :> <<"u", "p", "d", "a", "t", "e", "d", "_", "a", "t">> @@
   "title" :> <<"t", "i", "t", "l", "e">> @@
   "account_id" :> <<"a", "c", "c", "o", "u", "n", "t", "_", "i", "d">> @@
   "background" :> <<"b", "a", "c", "k", "g", "r", "o", "u", "n", "d">> @@
   "category_id" :> <<"c", "a", "t", "e", "g", "o", "r", "y", "_", "i", "d">> @@
   "currency" :> <<"c", "u", "r", "r", "e", "n", "c", "y">> @@
   "duration" :> <<"d", "u", "r", "a", "t", "i", "o", "n">> @@
   "price" :> <<"p", "r", "i", "c", "e">> @@
   "price_type" :> <<"p", "r", "i", "c", "e", "_", "t", "y", "p", "e">> @@
   "responsible_party_id" :> <<"r", "e", "s", "p", "o", "n", "s", "i", "b", "l", "e", "_", "p", "a", "r", "t", "y", "_", "i", "d">> @@
   "status" :> <<"s", "t", "a", "t", "u", "s">> @@
   "status_changed_on" :> <<"s", "t", "a", "t", "u", "s", "_", "c", "h", "a", "n", "g", "e", "d", "_", "o", "n">> @@
   "parties" :> <<"p", "a", "r", "t", "i", "e", "s">> @@
   "party" :> <<"p", "a", "r", "t", "y">> @@
   "party_id" :> <<"p", "a", "r", "t", "y", "_", "i", "d">> @@
   "recording_id" :> <<"r", "e", "c", "o", "r", "d", "i", "n", "g", "_", "i", "d">> @@
   "frame" :> <<"f", "r", "a", "m", "e">> @@
   "due_at" :> <<"d", "u", "e", "_", "a", "t">> @@
   "alert_at" :> <<"a", "l", "e", "r", "t", "_", "a", "t">> @@
   "public" :> <<"p", "u", "b", "l", "i", "c">> @@
   "notify" :> <<"n", "o", "t", "i", "f", "y">> @@
   "email_addresses" :> <<"e", "m", "a", "i", "l", "_", "a", "d", "d", "r", "e", "s", "s", "e", "s">> @@
   "phone_numbers" :> <<"p", "h", "o", "n", "e", "_", "n", "u", "m", "b", "e", "r", "s">> @@
   "addresses" :> <<"a", "d", "d", "r", "e", "s", "s", "e", "s">> @@
   "instant_messengers" :> <<"i", "n", "s", "t", "a", "n", "t", "_", "m", "e", "s", "s", "e", "n", "g", "e", "r", "s">> @@
   "twitter_accounts" :> <<"t", "w", "i", "t", "t", "e", "r", "_", "a", "c", "c", "o", "u", "n", "t", "s">> @@
   "web_addresses" :> <<"w", "e", "b", "_", "a", "d", "d", "r", "e", "s", "s", "e", "s">> @@
   "address" :> <<"a", "d", "d", "r", "e", "s", "s">> @@
   "location" :> <<"l", "o", "c", "a", "t", "i", "o", "n">> @@
   "number" :> <<"n", "u", "m", "b", "e", "r">> @@
   "city" :> <<"c", "i", "t", "y">> @@
   "country" :> <<"c", "o", "u", "n", "t", "r", "y">> @@
   "state" :> <<"s", "t", "a", "t", "e">> @@
   "zip" :> <<"z", "i", "p">> @@
   "street" :> <<"s", "t", "r", "e", "e", "t">> @@
   "protocol" :> <<"p", "r", "o", "t", "o", "c", "o", "l">> @@
   "username" :> <<"u", "s", "e", "r", "n", "a", "m", "e">> @@
   "url" :> <<"u", "r", "l">> @@
   "subject_field_id" :> <<"s", "u", "b", "j", "e", "c", "t", "_", "f", "i", "e", "l", "d", "_", "i", "d">> @@
   "subject_field_label" :> <<"s", "u", "b", "j", "e", "c", "t", "_", "f", "i", "e", "l", "d", "_", "l", "a", "b", "e", "l">> @@
   "value" :> <<"v", "a", "l", "u", "e">> @@
   "closed_at" :> <<"c", "l", "o", "s", "e", "d", "_", "a", "t">> @@
   "visible-to" :> <<"v", "i", "s", "i", "b", "l", "e", "-", "t", "o">> @@
   "contact_data" :> <<"c", "o", "n", "t", "a", "c", "t", "_", "d", "a", "t", "a">> @@
   "avatar_url" :> <<"a", "v", "a", "t", "a", "r", "_", "u", "r", "l">> @@
   "first_name" :> <<"f", "i", "r", "s", "t", "_", "n", "a", "m", "e">> @@
   "last_name" :> <<"l", "a", "s", "t", "_", "n", "a", "m", "e">> @@
   "company_id" :> <<"c", "o", "m", "p", "a", "n", "y", "_", "i", "d">> @@
   "company_name" :> <<"c", "o", "m", "p", "a", "n", "y", "_", "n", "a", "m", "e">> @@
   "subject_datas" :> <<"s", "u", "b", "j", "e", "c", "t", "_", "d", "a", "t", "a", "s">> @@
   "email_address" :> <<"e", "m", "a", "i", "l", "_", "a", "d", "d", "r", "e", "s", "s">> @@
   "admin" :> <<"a", "d", "m", "i", "n">> @@
   "Highrise" :> <<"H", "i", "g", "h", "r", "i", "s", "e">> @@
   "HighriseObject" :> <<"H", "i", "g", "h", "r", "i", "s", "e", "O", "b", "j", "e", "c", "t">> @@
   "HighriseField" :> <<"H", "i", "g", "h", "r", "i", "s", "e", "F", "i", "e", "l", "d">> @@
   "SubjectField" :> <<"S", "u", "b", "j", "e", "c", "t", "F", "i", "e", "l", "d">> @@
   "Tag" :> <<"T", "a", "g">> @@
   "Message" :> <<"M", "e", "s", "s", "a", "g", "e">> @@
   "Note" :> <<"N", "o", "t", "e">> @@
   "Email" :> <<"E", "m", "a", "i", "l">> @@
   "Deal" :> <<"D", "e", "a", "l">> @@
   "Task" :> <<"T", "a", "s", "k">> @@
   "ContactData" :> <<"C", "o", "n", "t", "a", "c", "t", "D", "a", "t", "a">> @@
   "ContactDetail" :> <<"C", "o", "n", "t", "a", "c", "t", "D", "e", "t", "a", "i", "l">> @@
   "EmailAddress" :> <<"E", "m", "a", "i", "l", "A", "d", "d", "r", "e", "s", "s">> @@
   "PhoneNumber" :> <<"P", "h", "o", "n", "e", "N", "u", "m", "b", "e", "r">> @@
   "Address" :> <<"A", "d", "d", "r", "e", "s", "s">> @@
   "InstantMessenger" :> <<"I", "n", "s", "t", "a", "n", "t", "M", "e", "s", "s", "e", "n", "g", "e", "r">> @@
   "TwitterAccount" :> <<"T", "w", "i", "t", "t", "e", "r", "A", "c", "c", "o", "u", "n", "t">> @@
   "WebAddress" :> <<"W", "e", "b", "A", "d", "d", "r", "e", "s", "s">> @@
   "SubjectData" :> <<"S", "u", "b", "j", "e", "c", "t", "D", "a", "t", "a">> @@
   "Case" :> <<"C", "a", "s", "e">> @@
   "Party" :> <<"P", "a", "r", "t", "y">> @@
   "Person" :> <<"P", "e", "r", "s", "o", "n">> @@
   "Company" :> <<"C", "o", "m", "p", "a", "n", "y">> @@
   "User" :> <<"U", "s", "e", "r">> @@
   "ElevatorError" :> <<"E", "l", "e", "v", "a", "t", "o", "r", "E", "r", "r", "o", "r">> @@
   "BadRequest" :> <<"B", "a", "d", "R", "e", "q", "u", "e", "s", "t">> @@
   "AuthorizationRequired" :> <<"A", "u", "t", "h", "o", "r", "i", "z", "a", "t", "i", "o", "n", "R", "e", "q", "u", "i", "r", "e", "d">> @@
   "Forbidden" :> <<"F", "o", "r", "b", "i", "d", "d", "e", "n">> @@
   "NotFound" :> <<"N", "o", "t", "F", "o", "u", "n", "d">> @@
   "GatewayFailure" :> <<"G", "a", "t", "e", "w", "a", "y", "F", "a", "i", "l", "u", "r", "e">> @@
   "GatewayConnectionError" :> <<"G", "a", "t", "e", "w", "a", "y", "C", "o", "n", "n", "e", "c", "t", "i", "o", "n", "E", "r", "r", "o", "r">> @@
   "UnexpectedResponse" :> <<"U", "n", "e", "x", "p", "e", "c", "t", "e", "d", "R", "e", "s", "p", "o", "n", "s", "e">> @@
   "InsufficientStorage" :> <<"I", "n", "s", "u", "f", "f", "i", "c", "i", "e", "n", "t", "S", "t", "o", "r", "a", "g", "e">> @@
   "type" :> <<"t", "y", "p", "e">> @@
   "integer" :> <<"i", "n", "t", "e", "g", "e", "r">> @@
   "datetime" :> <<"d", "a", "t", "e", "t", "i", "m", "e">> @@
   "array" :> <<"a", "r", "r", "a", "y">> @@
   "subject_data" :> <<"s", "u", "b", "j", "e", "c", "t", "_", "d", "a", "t", "a">> @@
   "sys" :> <<"s", "y", "s">> @@
   "re" :> <<"r", "e">> @@
   "requests" :> <<"r", "e", "q", "u", "e", "s", "t", "s">> @@
   "timedelta" :> <<"t", "i", "m", "e", "d", "e", "l", "t", "a">> @@
   "ElementTree" :> <<"E", "l", "e", "m", "e", "n", "t", "T", "r", "e", "e">> @@
   "text_type" :> <<"t", "e", "x", "t", "_", "t", "y", "p", "e">> @@
   "quote" :> <<"q", "u", "o", "t", "e">> @@
   "note" :> <<"n", "o", "t", "e">> @@
   "email" :> <<"e", "m", "a", "i", "l">> @@
   "task" :> <<"t", "a", "s", "k">> @@
   "person" :> <<"p", "e", "r", "s", "o", "n">> @@
   "company" :> <<"c", "o", "m", "p", "a", "n", "y">> @@
   "deal" :> <<"d", "e", "a", "l">> @@
   "kase" :> <<"k", "a", "s", "e">> @@
   "tag" :> <<"t", "a", "g">> @@
   "notes" :> <<"n", "o", "t", "e", "s">> @@
   "emails" :> <<"e", "m", "a", "i", "l", "s">> @@
   "tasks" :> <<"t", "a", "s", "k", "s">> @@
   "tags" :> <<"t", "a", "g", "s">>


----------------------------------------------------------------------------
(* HighriseField and the fields dictionary of every class                  *)

\* HighriseField(type=t): type is 'id', 'uneditable' (the default), a Python
\* type (str, int, bool, datetime, list) or the class ContactData
F(n, t) == [name |-> n, type |-> t, force_key |-> <<>>, extra_attrs |-> <<>>]
\* HighriseField(type=t, force_key=k, extra_attrs={'type': x})
FK(n, t, k, x) == [name |-> n, type |-> t, force_key |-> <<Chars[k]>>, extra_attrs |-> <<Chars[x]>>]

SubjectFieldFields == << F("id", "id"), F("label", "uneditable") >>

TagFields == << F("id", "id"), F("name", "uneditable") >>

\* the dictionary Message.__new__ assigns to cls.fields
MessageFields ==
    << F("id", "id"), F("body", "str"), F("author_id", "uneditable"),
       F("subject_id", "int"), F("subject_type", "str"),
       F("subject_name", "uneditable"), F("collection_id", "int"),
       F("collection_type", "str"), F("visible_to", "str"),
       F("owner_id", "int"), F("group_id", "int"),
       F("created_at", "datetime"), F("updated_at", "uneditable") >>

EmailExtendedFields == << F("title", "str") >>

DealFields ==
    << F("id", "id"), F("account_id", "uneditable"), F("author_id", "uneditable"),
       F("background", "str"), F("category_id", "int"), F("visible_to", "str"),
       F("owner_id", "int"), F("group_id", "int"), F("created_at", "uneditable"),
       F("updated_at", "uneditable"), F("currency", "str"), F("duration", "int"),
       F("name", "str"), F("price", "int"), F("price_type", "str"),
       F("responsible_party_id", "int"), F("status", "str"),
       F("status_changed_on", "uneditable"), F("parties", "list"),
       F("party", "uneditable"), F("party_id", "int") >>

TaskFields ==
    << F("id", "id"), F("recording_id", "int"), F("subject_id", "int"),
       F("subject_type", "str"), F("category_id", "int"), F("body", "str"),
       F("frame", "str"), F("due_at", "datetime"), F("alert_at", "datetime"),
       F("created_at", "datetime"), F("author_id", "int"),
       F("updated_at", "datetime"), F("public", "bool"), F("owner_id", "int"),
       F("notify", "bool") >>

ContactDataFields ==
    << F("email_addresses", "list"), F("phone_numbers", "list"),
       F("addresses", "list"), F("instant_messengers", "list"),
       F("twitter_accounts", "list"), F("web_addresses", "list") >>

EmailAddressFields == << F("id", "id"), F("address", "str"), F("location", "str") >>

PhoneNumberFields == << F("id", "id"), F("number", "str"), F("location", "str") >>

AddressFields ==
    << F("id", "id"), F("city", "str"), F("country", "str"), F("state", "str"),
       F("zip", "str"), F("street", "str"), F("location", "str") >>

InstantMessengerFields ==
    << F("id", "id"), F("address", "str"), F("protocol", "str"), F("location", "str") >>

TwitterAccountFields == << F("id", "id"), F("username", "str"), F("location", "str") >>

WebAddressFields == << F("id", "id"), F("url", "str"), F("location", "str") >>

SubjectDataFields ==
    << F("id", "id"),
       FK("subject_field_id", "int", "subject_field_id", "integer"),
       F("subject_field_label", "str"), F("value", "str") >>

CaseFields ==
    << F("id", "id"), F("author_id", "int"), F("closed_at", "datetime"),
       F("created_at", "datetime"), F("updated_at", "datetime"), F("name", "str"),
       F("visible-to", "str"), F("group_id", "int"), F("owner_id", "int"),
       F("parties", "list") >>

\* the dictionary Party.__new__ assigns to cls.fields
PartyFields ==
    << F("id", "id"), F("background", "str"), F("visible_to", "str"),
       F("owner_id", "int"), F("group_id", "int"),
       F("contact_data", "ContactData"), F("avatar_url", "str"),
       F("author_id", "uneditable"), F("created_at", "uneditable"),
       F("updated_at", "uneditable") >>

PersonExtendedFields ==
    << F("first_name", "str"), F("last_name", "str"), F("title", "str"),
       F("company_id", "int"), F("company_name", "str"),
       FK("subject_datas", "list", "subject_datas", "array") >>

CompanyExtendedFields ==
    << F("name", "str"), FK("subject_datas", "list", "subject_datas", "array") >>

\* the dictionary User.__new__ assigns to cls.fields
UserFields ==
    << F("id", "id"), F("name", "str"), F("email_address", "str"),
       F("created_at", "uneditable"), F("updated_at", "uneditable"),
       F("admin", "bool") >>

\* the classes whose __new__ rebuilds cls.fields at every instantiation
NewClasses == {"Message", "Note", "Email", "Party", "Person", "Company", "User"}
\* the classes that declare fields in the class body
StaticClasses == {"SubjectField", "Tag", "Deal", "Task", "ContactData", "EmailAddress",
                  "PhoneNumber", "Address", "InstantMessenger", "TwitterAccount",
                  "WebAddress", "SubjectData", "Case"}
\* every class that has a fields dictionary once instantiated
RecordClasses == NewClasses \cup StaticClasses
\* HighriseObject subclasses without any fields attribute
FieldlessClasses == {"HighriseObject", "ContactDetail"}

\* what cls.fields = {...} holds before cls.fields.update(extended_fields)
BaseFields(cls) ==
    CASE cls \in {"Message", "Note", "Email"} -> MessageFields
      [] cls \in {"Party", "Person", "Company"} -> PartyFields
      [] cls = "User" -> UserFields
      [] cls = "SubjectField" -> SubjectFieldFields
      [] cls = "Tag" -> TagFields
      [] cls = "Deal" -> DealFields
      [] cls = "Task" -> TaskFields
      [] cls = "ContactData" -> ContactDataFields
      [] cls = "EmailAddress" -> EmailAddressFields
      [] cls = "PhoneNumber" -> PhoneNumberFields
      [] cls = "Address" -> AddressFields
      [] cls = "InstantMessenger" -> InstantMessengerFields
      [] cls = "TwitterAccount" -> TwitterAccountFields
      [] cls = "WebAddress" -> WebAddressFields
      [] cls = "SubjectData" -> SubjectDataFields
      [] cls = "Case" -> CaseFields

\* the extended_fields argument the subclass's __new__ passes on
ExtendedFields(cls) ==
    CASE cls = "Email" -> EmailExtendedFields
      [] cls = "Person" -> PersonExtendedFields
      [] cls = "Company" -> CompanyExtendedFields
      [] OTHER -> <<>>

\* cls.fields once __new__ has returned: the base dictionary updated with
\* the extended fields (a dict keeps insertion order)
Fields(cls) == BaseFields(cls) \o ExtendedFields(cls)

\* key in fields, and fields[key], for a dictionary given as its items
HasKey(fields, key) == \E i \in 1..Len(fields) : fields[i].name = key
Lookup(fields, key) == fields[CHOOSE i \in 1..Len(fields) : fields[i].name = key]
\* the key of the dictionary whose characters are s, for key-in-dict tests
\* on a computed string
HasKeyStr(fields, s) == \E i \in 1..Len(fields) : Chars[fields[i].name] = s
KeyOfStr(fields, s) == fields[CHOOSE i \in 1..Len(fields) : Chars[fields[i].name] = s].name

\* HighriseField.is_editable
\* is_editable testing for the id type only
is_editable_unless_id(settings) == settings.type # "id"

\* is_editable without the test of the type
is_editable_always(settings) == settings.type = settings.type

is_editable(settings) == settings.type \notin {"id", "uneditable"}

----------------------------------------------------------------------------
(* int(), str(), and the timestamp format                                  *)

DigitValue(c) == (CHOOSE i \in 1..10 : DigitChars[i] = c) - 1
AllDigits(s) == s # <<>> /\ \A i \in 1..Len(s) : IsDigit(s[i])

\* the value of a non-empty string of decimal digits
RECURSIVE DigitsValue(_)
DigitsValue(s) ==
    IF s = <<>> THEN 0
    ELSE 10 * DigitsValue(SubSeq(s, 1, Len(s) - 1)) + DigitValue(s[Len(s)])

\* the decimal digits of a natural number
RECURSIVE NatStr(_)
NatStr(n) == IF n < 10 THEN <<DigitChars[n + 1]>>
             ELSE NatStr(n \div 10) \o <<DigitChars[(n % 10) + 1]>>

\* str(n) for an int
IntStr(n) == IF n < 0 THEN <<"-">> \o NatStr(-n) ELSE NatStr(n)

\* int(s): an optional sign and decimal digits, ValueError otherwise
int(s) ==
    IF AllDigits(s) THEN Ok(PyInt(DigitsValue(s)))
    ELSE IF s # <<>> /\ Head(s) = "-" /\ AllDigits(Tail(s)) THEN Ok(PyInt(-DigitsValue(Tail(s))))
    ELSE IF s # <<>> /\ Head(s) = "+" /\ AllDigits(Tail(s)) THEN Ok(PyInt(DigitsValue(Tail(s))))
    ELSE Raise("ValueError")

\* The clock counts ticks, SubTicks to the hour: datetime.now() is finer
\* than the wire format.  The wire format '%Y-%m-%dT%H:%M:%SZ' is abridged
\* to its day and hour fields, '%dT%HZ'; a datetime is the number of ticks
\* since day 0, hour 0.
SubTicks == 2
TicksPerDay == 24 * SubTicks

\* a number field of strptime: one or two digits
NumField(s) == Len(s) \in {1, 2} /\ AllDigits(s)

\* datetime.strptime(s, fmt): ValueError unless s matches the format
strptime(s) ==
    IF \E i \in 1..Len(s) : s[i] = "T"
    THEN LET ix == index(s, "T")
             dd == SubSeq(s, 1, ix)
             hh == SubSeq(s, ix + 2, Len(s) - 1)
         IN  IF /\ s[Len(s)] = "Z"
                /\ NumField(dd) /\ DigitsValue(dd) \in 1..31
                /\ NumField(hh) /\ DigitsValue(hh) \in 0..23
             THEN Ok(PyDatetime((DigitsValue(dd) * 24 + DigitsValue(hh)) * SubTicks))
             ELSE Raise("ValueError")
    ELSE Raise("ValueError")

Pad2(n) == IF n < 10 THEN <<"0">> \o NatStr(n) ELSE NatStr(n)

\* datetime.strftime(date, fmt): the fields zero-padded, the ticks below
\* the format's resolution dropped
strftime(date) ==
    Pad2(date \div TicksPerDay) \o <<"T">> \o Pad2((date \div SubTicks) % 24) \o <<"Z">>

\* Highrise.from_utc and Highrise.to_utc, with cls._tzoffset as tz
from_utc(date, tz) == date + tz * SubTicks
\* to_utc with the sign of from_utc
to_utc_added(date, tz) == date + tz * SubTicks

to_utc(date, tz) == date - tz * SubTicks

----------------------------------------------------------------------------
(* Defaults, construction and equality                                     *)

EmptyDict == [x \in {} |-> None]
NoKwargs == EmptyDict

\* d[key] = value on a dict
SetItem(d, key, value) ==
    [k \in DOMAIN d \cup {key} |-> IF k = key THEN value ELSE d[k]]

RECURSIVE default(_, _), init_loop(_, _, _, _, _, _), init_loop_open(_, _, _, _, _, _)

\* HighriseField.default: a fresh value at every read; datetime.now() is
\* the clock reading at that moment
default(settings, clock) ==
    CASE settings.type \in {"id", "uneditable"} -> None
      [] settings.type = "datetime" -> PyDatetime(clock)
      [] settings.type = "str" -> PyStr(<<>>)
      [] settings.type = "int" -> PyInt(0)
      [] settings.type = "bool" -> PyBool(FALSE)
      [] settings.type = "list" -> PyList(<<>>)
      [] settings.type = "ContactData" ->
            init_loop("ContactData", Fields("ContactData"), 1, NoKwargs, EmptyDict, clock).val

\* the loop of __init__ followed by self.__dict__.update(kwargs): every
\* keyword becomes an attribute
init_loop_open(cls, fields, i, kwargs, d, clock) ==
    IF i > Len(fields)
    THEN Ok(PyObj(cls, [k \in DOMAIN d \cup DOMAIN kwargs |->
                          IF k \in DOMAIN kwargs THEN kwargs[k] ELSE d[k]]))
    ELSE LET field == fields[i].name
             settings == fields[i]
         IN  IF field \in DOMAIN kwargs
             THEN IF ~ is_editable(settings) THEN Raise("KeyError")
                  ELSE init_loop_open(cls, fields, i + 1, kwargs,
                                      SetItem(d, field, kwargs[field]), clock)
             ELSE init_loop_open(cls, fields, i + 1, kwargs,
                                 SetItem(d, field, default(settings, clock)), clock)

\* the loop of HighriseObject.__init__ over self.fields.items(), from the
\* i-th item on, d being self.__dict__ so far
init_loop(cls, fields, i, kwargs, d, clock) ==
    IF i > Len(fields) THEN Ok(PyObj(cls, d))
    ELSE LET field == fields[i].name
             settings == fields[i]
         IN  IF field \in DOMAIN kwargs
             THEN IF ~ is_editable(settings) THEN Raise("KeyError")
                  ELSE init_loop(cls, fields, i + 1, kwargs,
                                 SetItem(d, field, kwargs[field]), clock)
             ELSE init_loop(cls, fields, i + 1, kwargs,
                            SetItem(d, field, default(settings, clock)), clock)

\* __init__ on an instance whose class has the dictionary fields
init(cls, fields, kwargs, clock) == init_loop(cls, fields, 1, kwargs, EmptyDict, clock)

\* cls(**kwargs) for a HighriseObject subclass: __new__, then __init__;
\* a class without fields fails at self.fields
Instantiate(cls, kwargs, clock) ==
    IF cls \in RecordClasses THEN init(cls, Fields(cls), kwargs, clock)
    ELSE Raise("AttributeError")

\* int and bool compare as numbers
IsNumber(a) == a.t \in {"int", "bool"}
Number(a) == IF a.t = "int" THEN a.v ELSE IF a.v THEN 1 ELSE 0

\* value == settings.default, the default being a freshly made value: an
\* object (no __eq__ is defined) equals only itself, so never a fresh one;
\* lists compare item by item and a fresh list is empty
PyEq(value, fresh) ==
    CASE IsNumber(value) /\ IsNumber(fresh) -> Number(value) = Number(fresh)
      [] value.t = "obj" \/ fresh.t = "obj" -> FALSE
      [] value.t = "list" /\ fresh.t = "list" -> value.v = <<>> /\ fresh.v = <<>>
      [] value.t = fresh.t -> value.v = fresh.v
      [] OTHER -> FALSE

\* text_type(value) for the values an id can hold
text_type(value) ==
    CASE value.t = "int" -> IntStr(value.v)
      [] value.t = "bool" -> IF value.v THEN <<"T", "r", "u", "e">> ELSE <<"F", "a", "l", "s", "e">>
      [] value.t = "str" -> value.v
      [] value.t = "datetime" ->
            Pad2(value.v \div TicksPerDay) \o <<" ">> \o Pad2((value.v \div SubTicks) % 24)
      [] OTHER -> <<"?">>

----------------------------------------------------------------------------
(* Wire elements: ElementTree.Element                                      *)

\* tag; the type attribute (<<>> when absent, else <<value>>); text (<<>>
\* when None, else <<string>>); the child elements in order
Element(tag, type, text, kids) == [type |-> type, tag |-> tag, text |-> text, kids |-> kids]

\* the attributes of getattr(sys.modules[__name__], name): the classes of
\* the module and what it imports
ErrorClasses == {"ElevatorError", "BadRequest", "AuthorizationRequired", "Forbidden",
                 "NotFound", "GatewayFailure", "GatewayConnectionError",
                 "UnexpectedResponse", "InsufficientStorage"}
\* callable without arguments, instances have no fields and no from_xml
PlainClasses == {"Highrise", "HighriseField", "timedelta"} \cup ErrorClasses
\* modules, and callables that need arguments
NotCallable == {"sys", "re", "requests", "ElementTree", "datetime", "quote"}
ModuleNames == RecordClasses \cup FieldlessClasses \cup PlainClasses \cup NotCallable
                   \cup {"text_type"}

getattr_module(name) ==
    IF \E n \in ModuleNames : Chars[n] = name
    THEN Ok(PyStr(Chars[CHOOSE n \in ModuleNames : Chars[n] = name]))
    ELSE Raise("AttributeError")
\* the module attribute a resolved name denotes
Resolved(r) == CHOOSE n \in ModuleNames : Chars[n] = r.val.v

----------------------------------------------------------------------------
(* HighriseObject.save_xml                                                 *)

RECURSIVE save_xml(_, _, _, _), save_fields(_, _, _, _, _, _), save_items(_, _, _, _, _)

\* for item in value: e.insert(0, item.save_xml(include_id=True)), from the
\* i-th item on, kids being the children of e so far
save_items(value, i, kids, clock, tz) ==
    IF i > Len(value) THEN Ok(kids)
    ELSE IF ~ (value[i].t = "obj" /\ value[i].v.cls \in RecordClasses)
    THEN Raise("AttributeError")
    ELSE LET r == save_xml(value[i], TRUE, clock, tz)
         IN  IF ~ IsOk(r) THEN r
             ELSE save_items(value, i + 1, <<r.val>> \o kids, clock, tz)

\* the loop of save_xml over self.fields.items(), from the i-th item on,
\* kids being the children of xml so far
save_fields(self, fields, i, kids, clock, tz) ==
    IF i > Len(fields) THEN Ok(kids)
    ELSE LET field == fields[i].name
             settings == fields[i]
             value == self.v.d[field]
             field_name == IF settings.force_key = <<>>
                           THEN replace(Chars[field], "_", <<"-">>)
                           ELSE settings.force_key[1]
             next(k) == save_fields(self, fields, i + 1, k, clock, tz)
             leaf(text, sub) == Element(field_name, settings.extra_attrs, text, sub)
         IN  IF field \notin DOMAIN self.v.d THEN next(kids)
             ELSE IF ~ is_editable(settings) THEN next(kids)
             ELSE IF PyEq(value, default(settings, clock)) THEN next(kids)
             ELSE IF value.t = "obj" /\ value.v.cls \in RecordClasses
             THEN LET r == save_xml(value, TRUE, clock, tz)
                  IN  IF ~ IsOk(r) THEN r ELSE next(<<r.val>> \o kids)
             ELSE IF IsNumber(value)
             THEN next(<<leaf(<<text_type(value)>>, <<>>)>> \o kids)
             ELSE IF value.t = "list"
             THEN IF Len(value.v) = 0 THEN next(kids)
                  ELSE LET r == save_items(value.v, 1, <<>>, clock, tz)
                       IN  IF ~ IsOk(r) THEN r
                           ELSE next(<<leaf(<<>>, r.val)>> \o kids)
             ELSE IF value.t = "datetime"
             THEN next(<<leaf(<<strftime(to_utc(value.v, tz))>>, <<>>)>> \o kids)
             ELSE IF value.t = "str"
             THEN next(<<leaf(<<value.v>>, <<>>)>> \o kids)
             ELSE next(<<leaf(<<>>, <<>>)>> \o kids)

\* self.save_xml(include_id=include_id); SubjectData overrides the base
\* element
save_xml(self, include_id, clock, tz) ==
    LET cls == self.v.cls
        d == self.v.d
        base_element == IF cls = "SubjectData" THEN Chars["subject_data"]
                        ELSE class_to_key(Chars[cls])
        id_element == Element(Chars["id"], <<Chars["integer"]>>, <<text_type(d["id"])>>, <<>>)
        first == IF include_id /\ "id" \in DOMAIN d /\ d["id"] # None
                 THEN <<id_element>> ELSE <<>>
        r == save_fields(self, Fields(cls), 1, first, clock, tz)
    IN  IF ~ IsOk(r) THEN r
        ELSE Ok(Element(base_element, <<>>, <<>>, r.val))

----------------------------------------------------------------------------
(* HighriseObject.from_xml                                                 *)

\* item.find('type'): the first child tagged type, if any
HasTypeChild(item) == \E i \in 1..Len(item.kids) : item.kids[i].tag = Chars["type"]
TypeChild(item) ==
    item.kids[CHOOSE i \in 1..Len(item.kids) :
                /\ item.kids[i].tag = Chars["type"]
                /\ \A j \in 1..(i - 1) : item.kids[j].tag # Chars["type"]]

\* the class of a nested element: item.find('type').text for a party,
\* the tag turned into a class name otherwise, looked up in the module.
\* find() gives None without a type child (None.text: AttributeError);
\* getattr with the name None is a TypeError
nested_class(item, tagname) ==
    IF item.tag = Chars["party"]
    THEN IF ~ HasTypeChild(item) THEN Raise("AttributeError")
         ELSE IF TypeChild(item).text = <<>> THEN Raise("TypeError")
         ELSE getattr_module(TypeChild(item).text[1])
    ELSE LET class_string == key_to_class(tagname)
         IN  IF ~ IsOk(class_string) THEN class_string
             ELSE getattr_module(class_string.val.v)

\* the conversion of a leaf without regard to its type attribute
leaf_value_untyped(child, tz) == Ok(PyStr(child.text[1]))

\* the conversion of a leaf by its type attribute
leaf_value(child, tz) ==
    LET data_type == child.type
    IN  IF data_type = <<Chars["integer"]>> THEN int(child.text[1])
        ELSE IF data_type = <<Chars["datetime"]>>
        THEN LET r == strptime(child.text[1])
             IN  IF ~ IsOk(r) THEN r ELSE Ok(PyDatetime(from_utc(r.val.v, tz)))
        ELSE Ok(PyStr(child.text[1]))

RECURSIVE from_xml(_, _, _, _), from_xml_loop(_, _, _, _, _, _, _), from_xml_items(_, _, _, _, _),
          from_xml_child(_, _, _, _, _)

\* klass.from_xml(item): only HighriseObject and its subclasses have it
call_from_xml(klass, item, clock, tz) ==
    IF klass \in RecordClasses \cup FieldlessClasses THEN from_xml(klass, item, clock, tz)
    ELSE Raise("AttributeError")

\* the loop over the items of a list element, from the i-th on
from_xml_items(child, i, items, clock, tz) ==
    IF i > Len(child.kids) THEN Ok(PyList(items))
    ELSE LET item == child.kids[i]
             klass == nested_class(item, replace(item.tag, "_", <<"-">>))
         IN  IF ~ IsOk(klass) THEN klass
             ELSE LET r == call_from_xml(Resolved(klass), item, clock, tz)
                  IN  IF ~ IsOk(r) THEN r
                      ELSE from_xml_items(child, i + 1, Append(items, r.val), clock, tz)

\* one pass of the loop body of from_xml for a child whose key is in
\* fields: the value the field is set to
from_xml_child(fields, key, child, clock, tz) ==
    IF child.text = <<>> THEN Ok(default(Lookup(fields, key), clock))
    ELSE IF key = "contact_data" THEN from_xml("ContactData", child, clock, tz)
    ELSE IF Len(child.kids) > 0
    THEN IF Lookup(fields, key).type = "list"
         THEN from_xml_items(child, 1, <<>>, clock, tz)
         ELSE LET klass == nested_class(child, child.tag)
              IN  IF ~ IsOk(klass) THEN klass
                  ELSE call_from_xml(Resolved(klass), child, clock, tz)
    ELSE leaf_value(child, tz)

\* the loop of from_xml without its test key not in cls.fields: the lookup
\* self.fields[key] of an undeclared key raises
from_xml_loop_unguarded(cls, fields, xml, i, d, clock, tz) ==
    IF i > Len(xml.kids) THEN Ok(PyObj(cls, d))
    ELSE LET child == xml.kids[i]
             key == replace(child.tag, "-", <<"_">>)
         IN  IF ~ HasKeyStr(fields, key) THEN Raise("KeyError")
             ELSE LET r == from_xml_child(fields, KeyOfStr(fields, key), child, clock, tz)
                  IN  IF ~ IsOk(r) THEN r
                      ELSE from_xml_loop(cls, fields, xml, i + 1,
                                         SetItem(d, KeyOfStr(fields, key), r.val), clock, tz)

\* the loop of from_xml over the children of xml, from the i-th on, with
\* fields the dictionary cls.fields and d the __dict__ of self so far
from_xml_loop(cls, fields, xml, i, d, clock, tz) ==
    IF i > Len(xml.kids) THEN Ok(PyObj(cls, d))
    ELSE LET child == xml.kids[i]
             key == replace(child.tag, "-", <<"_">>)
         IN  IF ~ HasKeyStr(fields, key)
             THEN from_xml_loop(cls, fields, xml, i + 1, d, clock, tz)
             ELSE LET r == from_xml_child(fields, KeyOfStr(fields, key), child, clock, tz)
                  IN  IF ~ IsOk(r) THEN r
                      ELSE from_xml_loop(cls, fields, xml, i + 1,
                                         SetItem(d, KeyOfStr(fields, key), r.val), clock, tz)

\* the class from_xml instantiates: for Party, the module attribute named
\* by the element's type attribute (xml.get('type') is None without one)
from_xml_class(cls, xml) ==
    IF cls = "Party"
    THEN IF xml.type = <<>> THEN Raise("TypeError") ELSE getattr_module(xml.type[1])
    ELSE Ok(PyStr(Chars[cls]))

\* cls.from_xml(xml)
from_xml(cls, xml, clock, tz) ==
    LET klass == from_xml_class(cls, xml)
    IN  IF ~ IsOk(klass) THEN klass
        ELSE LET k == Resolved(klass)
             IN  IF k \in NotCallable THEN Raise("TypeError")
                 ELSE IF k \in PlainClasses \cup {"text_type"}
                 THEN IF Len(xml.kids) > 0 THEN Raise("AttributeError")
                      ELSE IF k = "text_type" THEN Ok(PyStr(<<>>))
                      ELSE Ok(PyObj(k, EmptyDict))
                 ELSE LET self == Instantiate(k, NoKwargs, clock)
                      IN  IF ~ IsOk(self) THEN self
                          ELSE from_xml_loop(k, Fields(k), xml, 1, self.val.v.d, clock, tz)

----------------------------------------------------------------------------
(* The inputs of the calls                                                 *)

\* the configured offsets, in hours
Offsets == {-26, 0, 2}
\* the clock starts on day 2 and is read up to MaxClock ticks later
MaxClock == 1
StartClock == 2 * TicksPerDay
\* the number of sample values per field
NumVariants == 2

\* a record made with cls(**kwargs); the samples supply editable fields only
New(cls, kwargs, clock) == Instantiate(cls, kwargs, clock).val

\* the records a list field is given, by field name
SampleItems(field, clock) ==
    CASE field = "email_addresses" ->
            << New("EmailAddress", "address" :> PyStr(<<"a">>), clock),
               New("EmailAddress", "address" :> PyStr(<<"b">>), clock) >>
      [] field = "phone_numbers" ->
            << New("PhoneNumber", "number" :> PyStr(<<"1">>), clock),
               New("PhoneNumber", "number" :> PyStr(<<"2">>), clock) >>
      [] field = "addresses" ->
            << New("Address", "city" :> PyStr(<<"a">>), clock),
               New("Address", "zip" :> PyStr(<<"9">>), clock) >>
      [] field = "instant_messengers" ->
            << New("InstantMessenger", "address" :> PyStr(<<"a">>), clock),
               New("InstantMessenger", "protocol" :> PyStr(<<"Q", "Q">>), clock) >>
      [] field = "twitter_accounts" ->
            << New("TwitterAccount", "username" :> PyStr(<<"a">>), clock),
               New("TwitterAccount", "username" :> PyStr(<<"b">>), clock) >>
      [] field = "web_addresses" ->
            << New("WebAddress", "url" :> PyStr(<<"a">>), clock),
               New("WebAddress", "url" :> PyStr(<<"b">>), clock) >>
      [] field = "subject_datas" ->
            << New("SubjectData", "subject_field_id" :> PyInt(5), clock),
               New("SubjectData", "value" :> PyStr(<<"b">>), clock) >>
      [] OTHER ->
            << New("Person", "first_name" :> PyStr(<<"a">>), clock),
               New("Company", "name" :> PyStr(<<"b">>), clock) >>

\* the v-th sample value for a field: the first differs from the default,
\* the second is the type's empty value, the later ones differ again
SampleValue(settings, v, clock) ==
    CASE settings.type \in {"id", "uneditable"} -> PyInt(7)
      [] settings.type = "str" ->
            IF v = 1 THEN PyStr(<<"a">>) ELSE IF v = 2 THEN PyStr(<<>>) ELSE PyStr(IntStr(v))
      [] settings.type = "int" ->
            IF v = 2 THEN PyInt(0) ELSE PyInt(7 * v - 2)
      [] settings.type = "bool" -> PyBool(v % 2 = 1)
      [] settings.type = "datetime" ->
            PyDatetime(StartClock + TicksPerDay + (1 - v) * (SubTicks + 1))
      [] settings.type = "list" ->
            IF v = 1 THEN PyList(SampleItems(settings.name, clock))
            ELSE IF v = 2 THEN PyList(<<>>)
            ELSE PyList(SubSeq(SampleItems(settings.name, clock), 2, 2))
      [] settings.type = "ContactData" ->
            IF v = 2 THEN New("ContactData", NoKwargs, clock)
            ELSE New("ContactData",
                     "email_addresses" :>
                        PyList(SubSeq(SampleItems("email_addresses", clock), 1, IF v = 1 THEN 2 ELSE 1)),
                     clock)

\* a keyword no class declares as a field
Undeclared == "nickname" :> PyInt(7)

\* the keyword arguments of the sampled constructions: none, one field at
\* any sample value, or two fields at their first sample value (two
\* neighbours of the dictionary, or any two with one not editable), or an
\* undeclared keyword, alone or with one field
SampleKwargs(cls, clock) ==
    LET fields == IF cls \in RecordClasses THEN Fields(cls) ELSE <<>>
        n == Len(fields)
    IN  {NoKwargs, Undeclared}
        \cup {(fields[i].name :> SampleValue(fields[i], 1, clock)) @@ Undeclared : i \in 1..n}
        \cup {fields[i].name :> SampleValue(fields[i], v, clock) :
                i \in 1..n, v \in 1..NumVariants}
        \cup {(fields[i].name :> SampleValue(fields[i], 1, clock))
              @@ (fields[j].name :> SampleValue(fields[j], 1, clock)) :
                <<i, j>> \in {p \in (1..n) \X (1..n) :
                                /\ p[1] < p[2]
                                /\ \/ p[2] = p[1] + 1
                                   \/ ~ is_editable(fields[p[1]])
                                   \/ ~ is_editable(fields[p[2]])}}

\* wire elements as the server sends them
Tag(n) == replace(Chars[n], "_", <<"-">>)
Leaf(n, type, text) == Element(Tag(n), type, <<text>>, <<>>)
Empty(n) == Element(Tag(n), <<>>, <<>>, <<>>)
WS == <<" ">>
Integer == <<Chars["integer"]>>
DateTime == <<Chars["datetime"]>>
Boolean == <<<<"b", "o", "o", "l", "e", "a", "n">>>>
Array == <<Chars["array"]>>
Root(n, type, kids) == Element(Tag(n), type, <<WS>>, kids)
TrueText == <<"t", "r", "u", "e">>
Kase == <<"k", "a", "s", "e">>
Foo == <<"f", "o", "o">>

IdLeaf == Leaf("id", Integer, <<"7">>)
PersonKids == << IdLeaf, Leaf("first_name", <<>>, <<"a">>),
                 Leaf("company_id", Integer, <<"1", "2">>) >>
CompanyKids == << Leaf("name", <<>>, <<"b">>) >>
TypeLeaf(n) == Leaf("type", <<>>, Chars[n])
PartyItems == << Root("party", <<>>, <<TypeLeaf("Person")>> \o PersonKids),
                 Root("party", <<>>, <<TypeLeaf("Company")>> \o CompanyKids) >>
\* an element tagged as class_to_key names the class
ItemRoot(cls, kids) == Element(class_to_key(Chars[cls]), <<>>, <<WS>>, kids)

\* the sampled calls cls.from_xml(xml) on elements from the server
BaseWire ==
    { <<"Person", ItemRoot("Person", PersonKids)>>,
      <<"Person", ItemRoot("Person",
            << Leaf("created_at", DateTime, <<"0", "3", "T", "2", "3", "Z">>),
               Element(Tag("contact_data"), <<>>, <<WS>>,
                 << Element(Tag("email_addresses"), Array, <<WS>>,
                      << ItemRoot("EmailAddress", <<IdLeaf, Leaf("address", <<>>, <<"a">>)>>),
                         ItemRoot("EmailAddress", <<Leaf("address", <<>>, <<"b">>)>>) >>) >>) >>)>>,
      <<"Party", Root("party", <<Chars["Person"]>>, PersonKids)>>,
      <<"Party", Root("party", <<>>, <<TypeLeaf("Person")>> \o PersonKids)>>,
      <<"Party", Root("party", <<Chars["Company"]>>, CompanyKids)>>,
      <<"Party", Root("party", <<>>, CompanyKids \o <<TypeLeaf("Company")>>)>>,
      <<"Party", Root("party", <<Chars["Highrise"]>>, <<>>)>>,
      <<"Party", Root("party", <<Chars["HighriseField"]>>, <<IdLeaf>>)>>,
      <<"Party", Root("party", <<Chars["sys"]>>, <<>>)>>,
      <<"Party", Root("party", <<Chars["ContactDetail"]>>, <<>>)>>,
      <<"Party", Root("party", <<Foo>>, <<IdLeaf>>)>>,
      <<"Party", Root("party", <<>>, <<IdLeaf>>)>>,
      <<"Task", ItemRoot("Task",
            << IdLeaf, Leaf("due_at", DateTime, <<"0", "3", "T", "1", "0", "Z">>),
               Leaf("body", <<>>, <<"a">>), Leaf("author_id", Integer, <<"1", "2">>),
               Leaf("public", Boolean, TrueText) >>)>>,
      <<"Task", ItemRoot("Task",
            << Leaf("due_at", DateTime, <<"0", "3", "T", "2", "3", "Z">>),
               Leaf("alert_at", DateTime, <<"0", "4", "T", "0", "0", "Z">>) >>)>>,
      <<"Task", ItemRoot("Task", << Leaf("due_at", DateTime, <<"3", "T", "9", "Z">>) >>)>>,
      <<"Task", ItemRoot("Task", << Empty("due_at"), Empty("body") >>)>>,
      <<"Task", ItemRoot("Task", << Leaf("due_at", DateTime, <<"a">>) >>)>>,
      <<"Note", ItemRoot("Note",
            << IdLeaf, Leaf("body", <<>>, <<"a">>), Leaf("author_id", Integer, <<"1", "2">>),
               Leaf("created_at", DateTime, <<"0", "3", "T", "1", "0", "Z">>),
               Leaf("subject_id", Integer, <<"5">>) >>)>>,
      <<"Note", ItemRoot("Note", << Empty("body"), Empty("subject_id") >>)>>,
      <<"Email", ItemRoot("Email", << Leaf("title", <<>>, <<"a">>), Leaf("body", <<>>, <<"b">>) >>)>>,
      <<"Deal", ItemRoot("Deal",
            << Leaf("name", <<>>, <<"a">>), Leaf("price", Integer, <<"5">>),
               Element(Tag("parties"), Array, <<WS>>, PartyItems) >>)>>,
      <<"Deal", ItemRoot("Deal",
            << Leaf("price", <<>>, <<"5">>),
               Element(Tag("parties"), Array, <<>>, PartyItems) >>)>>,
      <<"Deal", ItemRoot("Deal",
            << Leaf("account_id", Integer, <<"1", "2">>),
               Element(Tag("party"), <<>>, <<WS>>, <<TypeLeaf("Person")>> \o PersonKids) >>)>>,
      <<"Deal", ItemRoot("Deal", << Leaf("price", Integer, <<"a">>) >>)>>,
      <<"Deal", ItemRoot("Deal",
            << Element(Tag("parties"), Array, <<WS>>, <<Element(Foo, <<>>, <<>>, <<>>)>>) >>)>>,
      <<"Deal", ItemRoot("Deal",
            << Element(Tag("parties"), Array, <<WS>>,
                       <<Element(<<"a", "-">>, <<>>, <<>>, <<>>)>>) >>)>>,
      <<"Case", Element(Kase, <<>>, <<WS>>,
            << Leaf("name", <<>>, <<"a">>), Leaf("visible-to", <<>>, <<"b">>),
               Leaf("author_id", Integer, <<"1", "2">>) >>)>>,
      <<"User", ItemRoot("User", << Leaf("name", <<>>, <<"a">>), Leaf("admin", Boolean, TrueText) >>)>>,
      <<"Tag", ItemRoot("Tag", << IdLeaf, Leaf("name", <<>>, <<"a">>) >>)>>,
      <<"SubjectData", Root("subject_data", <<>>,
            << Leaf("subject_field_id", Integer, <<"5">>), Leaf("value", <<>>, <<"a">>) >>)>> }

\* children whose tag no class declares
ExtraChildren ==
    { Element(Foo, <<>>, <<<<"a">>>>, <<>>),
      Element(Foo, <<>>, <<>>, <<>>),
      Element(Foo, Integer, <<<<"a">>>>, <<>>),
      Element(<<"x", "-">>, <<>>, <<WS>>, <<Element(Foo, <<>>, <<>>, <<>>)>>),
      TypeLeaf("Company") }

\* xml with child inserted so that i children precede it, and xml without
\* its i-th child
InsertChild(xml, i, child) ==
    [xml EXCEPT !.kids = SubSeq(xml.kids, 1, i) \o <<child>> \o SubSeq(xml.kids, i + 1, Len(xml.kids))]
RemoveChild(xml, i) ==
    [xml EXCEPT !.kids = SubSeq(xml.kids, 1, i - 1) \o SubSeq(xml.kids, i + 1, Len(xml.kids))]

WireSamples ==
    BaseWire \cup
    { <<w[1], InsertChild(w[2], i, x)>> :
        <<w, i, x>> \in {t \in BaseWire \X (0..3) \X ExtraChildren : t[2] <= Len(t[1][2].kids)} }

----------------------------------------------------------------------------
(* The calls.  made, enc and dec record the last call of each kind: its    *)
(* arguments, the clock and offset it ran under, and what it returned or   *)
(* raised.                                                                 *)

NoElement == Element(<<>>, <<>>, <<>>, <<>>)
NoMade == [cls |-> "none", kwargs |-> NoKwargs, ret |-> Raise("nocall")]
NoEnc == [self |-> None, include_id |-> FALSE, ret |-> Raise("nocall")]
NoDec == [cls |-> "none", tz |-> 0, clock |-> 0, xml |-> NoElement, ret |-> Raise("nocall")]
NoName == [ret |-> Raise("nocall"), fn |-> "none", arg |-> <<>>, from |-> <<>>]

\* the threads, and the classes they instantiate
NumThreads == 2
Threads == 1..NumThreads
ConcClasses == {"Person", "Note"}
NoThread == [d |-> EmptyDict, cls |-> "none", i |-> 0, xml |-> NoElement,
             ret |-> Raise("nocall"), pc |-> "idle", op |-> "none", ref |-> 0, size |-> 0]

\* no operation has been called on rec
NoCall == [self |-> None, ret |-> Raise("nocall"), op |-> "none", replies |-> <<>>]

Init ==
    /\ tzoffset = 0
    /\ now = StartClock
    /\ made = NoMade
    /\ enc = NoEnc
    /\ dec = NoDec
    /\ nm = NoName
    /\ cls_fields = [c \in ConcClasses |-> 0]
    /\ heap = <<>>
    /\ thread = [t \in Threads |-> NoThread]
    /\ rec = None
    /\ sent = <<>>
    /\ last = NoCall

\* Highrise.set_timezone_offset(offset); the offset is fixed before the
\* conversions that depend on it
set_timezone_offset(offset) ==
    /\ made = NoMade /\ enc = NoEnc /\ dec = NoDec
    /\ tzoffset # offset
    /\ tzoffset' = offset
    /\ UNCHANGED <<now, made, enc, dec, nm, cvars, tvars>>

\* time passes
Tick ==
    /\ now < StartClock + MaxClock
    /\ now' = now + 1
    /\ UNCHANGED <<tzoffset, made, enc, dec, nm, cvars, tvars>>

\* nothing is held from earlier calls
Idle == made = NoMade /\ enc = NoEnc /\ dec = NoDec

\* the caller drops what the earlier calls returned
Forget ==
    /\ ~ Idle
    /\ made' = NoMade
    /\ enc' = NoEnc
    /\ dec' = NoDec
    /\ UNCHANGED <<tzoffset, now, nm, cvars, tvars>>

\* cls(**kwargs)
Construct(cls, kwargs) ==
    /\ Idle
    /\ made' = [cls |-> cls, kwargs |-> kwargs, ret |-> Instantiate(cls, kwargs, now)]
    /\ enc' = NoEnc
    /\ dec' = NoDec
    /\ UNCHANGED <<tzoffset, now, nm, cvars, tvars>>

\* a HighriseObject instance
IsRecord(value) == value.t = "obj" /\ value.v.cls \in RecordClasses

\* made.ret.save_xml(include_id=include_id), on a constructed record
EncodeMade(include_id) ==
    /\ IsOk(made.ret)
    /\ enc = NoEnc
    /\ enc' = [self |-> made.ret.val, include_id |-> include_id,
               ret |-> save_xml(made.ret.val, include_id, now, tzoffset)]
    /\ UNCHANGED <<tzoffset, now, made, dec, nm, cvars, tvars>>

\* dec.ret.save_xml(include_id=include_id), on a decoded record
EncodeDecoded(include_id) ==
    /\ IsOk(dec.ret)
    /\ IsRecord(dec.ret.val)
    /\ enc = NoEnc
    /\ enc' = [self |-> dec.ret.val, include_id |-> include_id,
               ret |-> save_xml(dec.ret.val, include_id, now, tzoffset)]
    /\ UNCHANGED <<tzoffset, now, made, dec, nm, cvars, tvars>>

\* cls.from_xml(xml) on an element from the server
DecodeWire(cls, xml) ==
    /\ Idle
    /\ dec' = [cls |-> cls, tz |-> tzoffset, clock |-> now, xml |-> xml,
               ret |-> from_xml(cls, xml, now, tzoffset)]
    /\ made' = NoMade
    /\ enc' = NoEnc
    /\ UNCHANGED <<tzoffset, now, nm, cvars, tvars>>

\* cls.from_xml(xml) on the element save_xml returned, cls being the
\* class of the record that was encoded
DecodeEncoded ==
    /\ IsOk(enc.ret)
    /\ dec.xml # enc.ret.val
    /\ dec' = [cls |-> enc.self.v.cls, tz |-> tzoffset, clock |-> now, xml |-> enc.ret.val,
               ret |-> from_xml(enc.self.v.cls, enc.ret.val, now, tzoffset)]
    /\ UNCHANGED <<tzoffset, now, made, enc, nm, cvars, tvars>>

Next ==
    \/ \E offset \in Offsets : set_timezone_offset(offset)
    \/ Tick
    \/ \E cls \in RecordClasses \cup FieldlessClasses :
         \E kwargs \in SampleKwargs(cls, now) : Construct(cls, kwargs)
    \/ \E include_id \in BOOLEAN : EncodeMade(include_id)
    \/ \E include_id \in BOOLEAN : EncodeDecoded(include_id)
    \/ \E w \in WireSamples : DecodeWire(w[1], w[2])
    \/ DecodeEncoded
    \/ Forget

Spec == Init /\ [][Next]_vars

----------------------------------------------------------------------------
(* The name conversions as calls                                           *)

\* the strings the conversions are called with
MaxKeyLen == 5
KeyAlphabet == {"a", "b", "-", "A", "1"}
Keys == UNION {[1..n -> KeyAlphabet] : n \in 0..MaxKeyLen}

\* Highrise.key_to_class(key)
CallKeyToClass(key) ==
    /\ nm = NoName
    /\ nm' = [ret |-> key_to_class(key), fn |-> "key_to_class", arg |-> key, from |-> <<>>]
    /\ UNCHANGED <<mvars, cvars, tvars>>

\* Highrise.class_to_key(key)
CallClassToKey(key) ==
    /\ nm = NoName
    /\ nm' = [ret |-> Ok(PyStr(class_to_key(key))),
              fn |-> "class_to_key", arg |-> key, from |-> <<>>]
    /\ UNCHANGED <<mvars, cvars, tvars>>

\* Highrise.class_to_key(Highrise.key_to_class(key)): the second call, on
\* what the first returned; from keeps the key the first was given
CallClassToKeyOfClass ==
    /\ nm.fn = "key_to_class"
    /\ IsOk(nm.ret)
    /\ nm' = [ret |-> Ok(PyStr(class_to_key(nm.ret.val.v))),
              fn |-> "class_to_key", arg |-> nm.ret.val.v, from |-> <<nm.arg>>]
    /\ UNCHANGED <<mvars, cvars, tvars>>

\* the caller drops the result
ForgetName ==
    /\ nm # NoName
    /\ nm' = NoName
    /\ UNCHANGED <<mvars, cvars, tvars>>

NextNames ==
    \/ nm = NoName /\ \E key \in Keys : CallKeyToClass(key)
    \/ nm = NoName /\ \E key \in Keys : CallClassToKey(key)
    \/ CallClassToKeyOfClass
    \/ ForgetName

SpecNames == Init /\ [][NextNames]_vars

----------------------------------------------------------------------------
(* Concurrent calls.  Message.__new__, Party.__new__ and User.__new__      *)
(* assign cls.fields and then update it, two statements; __init__          *)
(* iterates self.fields.items(); from_xml reads cls.fields for every       *)
(* child.  A thread may be preempted between any two of these.             *)

\* the items of the dictionary at heap[id]
DictFields(id) ==
    BaseFields(heap[id].cls) \o (IF heap[id].full THEN ExtendedFields(heap[id].cls) ELSE <<>>)

\* the concurrent calls: cls() and cls.from_xml(xml)
ConcCalls ==
    { [cls |-> "Person", xml |-> NoElement, op |-> "construct"],
      [cls |-> "Note", xml |-> NoElement, op |-> "construct"],
      [cls |-> "Person",
       xml |-> ItemRoot("Person", << Leaf("first_name", <<>>, <<"a">>),
                                     Leaf("background", <<>>, <<"b">>),
                                     Empty("subject_datas") >>),
       op |-> "from_xml"],
      [cls |-> "Note",
       xml |-> ItemRoot("Note", << Leaf("body", <<>>, <<"a">>), Empty("subject_id") >>),
       op |-> "from_xml"] }

\* what the call returns when it runs alone
Alone(call) ==
    IF call.op = "construct" THEN Instantiate(call.cls, NoKwargs, now)
    ELSE from_xml(call.cls, call.xml, now, tzoffset)

\* a thread begins a call
Start(t, call) ==
    /\ thread[t].pc = "idle"
    /\ thread' = [thread EXCEPT ![t] = [NoThread EXCEPT !.pc = "new", !.op = call.op,
                                        !.cls = call.cls, !.xml = call.xml]]
    /\ UNCHANGED <<mvars, nm, tvars, cls_fields, heap>>

\* __new__: cls.fields = {...}, a new dictionary with the base fields
NewAssign(t) ==
    /\ thread[t].pc = "new"
    /\ heap' = Append(heap, [cls |-> thread[t].cls, full |-> FALSE])
    /\ cls_fields' = [cls_fields EXCEPT ![thread[t].cls] = Len(heap) + 1]
    /\ thread' = [thread EXCEPT ![t].pc = "update"]
    /\ UNCHANGED <<mvars, nm, tvars>>

\* __new__: cls.fields.update(extended_fields), on the dictionary cls.fields
\* is bound to now
NewUpdate(t) ==
    /\ thread[t].pc = "update"
    /\ heap' = [heap EXCEPT ![cls_fields[thread[t].cls]].full = TRUE]
    /\ thread' = [thread EXCEPT ![t].pc = "init"]
    /\ UNCHANGED <<mvars, nm, tvars, cls_fields>>

\* __init__: self.fields.items() takes the dictionary cls.fields is bound to
InitBegin(t) ==
    /\ thread[t].pc = "init"
    /\ thread' = [thread EXCEPT ![t].pc = "iter",
                                ![t].ref = cls_fields[thread[t].cls],
                                ![t].size = Len(DictFields(cls_fields[thread[t].cls]))]
    /\ UNCHANGED <<mvars, nm, tvars, cls_fields, heap>>

\* __init__: the iteration ends; a dictionary that changed size meanwhile
\* raises RuntimeError
InitEnd(t) ==
    /\ thread[t].pc = "iter"
    /\ LET self == thread[t]
           r == init(self.cls, DictFields(self.ref), NoKwargs, now)
       IN  thread' = [thread EXCEPT ![t] =
              IF Len(DictFields(self.ref)) # self.size
              THEN [self EXCEPT !.pc = "done", !.ret = Raise("RuntimeError")]
              ELSE IF self.op = "construct"
              THEN [self EXCEPT !.pc = "done", !.ret = r]
              ELSE [self EXCEPT !.pc = "child", !.i = 1, !.d = r.val.v.d]]
    /\ UNCHANGED <<mvars, nm, tvars, cls_fields, heap>>

\* from_xml: the next child, and its test key not in cls.fields
Child(t) ==
    /\ thread[t].pc = "child"
    /\ LET self == thread[t]
           key == replace(self.xml.kids[self.i].tag, "-", <<"_">>)
       IN  thread' = [thread EXCEPT ![t] =
              IF self.i > Len(self.xml.kids)
              THEN [self EXCEPT !.pc = "done", !.ret = Ok(PyObj(self.cls, self.d))]
              ELSE IF ~ HasKeyStr(DictFields(cls_fields[self.cls]), key)
              THEN [self EXCEPT !.i = self.i + 1]
              ELSE [self EXCEPT !.pc = "set"]]
    /\ UNCHANGED <<mvars, nm, tvars, cls_fields, heap>>

\* from_xml: the rest of the loop body; self.fields[key] and
\* cls.fields[key] read the dictionary again (KeyError without the key)
SetField(t) ==
    /\ thread[t].pc = "set"
    /\ LET self == thread[t]
           child == self.xml.kids[self.i]
           key == replace(child.tag, "-", <<"_">>)
           fields == DictFields(cls_fields[self.cls])
           reads == \/ child.text = <<>>
                    \/ key # Chars["contact_data"] /\ Len(child.kids) > 0
           name == KeyOfStr(Fields(self.cls), key)
           r == from_xml_child(fields, name, child, now, tzoffset)
       IN  thread' = [thread EXCEPT ![t] =
              IF reads /\ ~ HasKeyStr(fields, key)
              THEN [self EXCEPT !.pc = "done", !.ret = Raise("KeyError")]
              ELSE IF ~ IsOk(r) THEN [self EXCEPT !.pc = "done", !.ret = r]
              ELSE [self EXCEPT !.pc = "child", !.i = self.i + 1,
                                !.d = SetItem(self.d, name, r.val)]]
    /\ UNCHANGED <<mvars, nm, tvars, cls_fields, heap>>

NextConc ==
    \E t \in Threads :
        \/ \E call \in ConcCalls : Start(t, call)
        \/ NewAssign(t)
        \/ NewUpdate(t)
        \/ InitBegin(t)
        \/ InitEnd(t)
        \/ Child(t)
        \/ SetField(t)

SpecConc == Init /\ [][NextConc]_vars

----------------------------------------------------------------------------
(* The transport.  Highrise.request sends one HTTP request; what the       *)
(* server answers is an input: a status and a body, the body being <<>>    *)
(* when ElementTree.fromstring cannot parse it and <<element>> otherwise.  *)
(* An operation returns what it returned or raised, the record as it       *)
(* leaves it, and the requests it issued in order.                         *)

\* value == None
IsNone(value) == value.t = "None"

Request(method, fmt, args, xml) == [xml |-> xml, method |-> method, fmt |-> fmt, args |-> args]
Reply(status, body) == [body |-> body, status |-> status]
Did(ret, sent_) == [sent |-> sent_, ret |-> ret]
Done(ret, self, sent_) == [sent |-> sent_, self |-> self, ret |-> ret]

\* the exception Highrise.request raises for a status of 400 and above
status_error(status) ==
    CASE status = 400 -> "BadRequest"
      [] status = 401 -> "AuthorizationRequired"
      [] status = 403 -> "Forbidden"
      [] status = 404 -> "NotFound"
      [] status = 422 -> "GatewayFailure"
      [] status = 502 -> "GatewayConnectionError"
      [] status = 507 -> "InsufficientStorage"
      [] OTHER -> "UnexpectedResponse"

\* Highrise.request(path, method, xml) given the server's reply: PUT and
\* DELETE return the status, GET and POST the parsed body
request(method, reply) ==
    IF reply.status >= 400 THEN Raise(status_error(reply.status))
    ELSE IF method \in {"PUT", "DELETE"} THEN Ok(PyInt(reply.status))
    ELSE IF reply.body = <<>> THEN Raise("UnexpectedResponse")
    ELSE Ok(reply.body[1])

\* the class attributes plural and singular
plural(cls) ==
    CASE cls = "Note" -> "notes"
      [] cls = "Email" -> "emails"
      [] cls = "Task" -> "tasks"
      [] cls = "Party" -> "parties"
      [] cls = "Person" -> "people"
      [] cls = "Company" -> "companies"
      [] OTHER -> "users"
singular(cls) ==
    CASE cls = "Note" -> "note"
      [] cls = "Email" -> "email"
      [] cls = "Task" -> "task"
      [] cls = "Party" -> "party"
      [] cls = "Person" -> "person"
      [] cls = "Company" -> "company"
      [] OTHER -> "user"

RECURSIVE iter(_, _), iter_kids(_, _, _), list_loop(_, _, _, _, _, _),
          list_append(_, _, _, _, _, _, _)

\* xml.iter(tag): the element and its descendants that carry the tag, in
\* document order
iter_kids(kids, i, tag) ==
    IF i > Len(kids) THEN <<>>
    ELSE iter(kids[i], tag) \o iter_kids(kids, i + 1, tag)
iter(xml, tag) ==
    (IF xml.tag = tag THEN <<xml>> ELSE <<>>) \o iter_kids(xml.kids, 1, tag)

\* for item in xml.iter(tag): objects.append(cls.from_xml(item))
list_loop(cls, items, i, objects, clock, tz) ==
    IF i > Len(items) THEN Ok(PyList(objects))
    ELSE list_append(cls, items, i, objects, from_xml(cls, items[i], clock, tz), clock, tz)
\* objects.append(r), r being what from_xml returned for items[i]
list_append(cls, items, i, objects, r, clock, tz) ==
    IF ~ IsOk(r) THEN r
    ELSE list_loop(cls, items, i + 1, Append(objects, r.val), clock, tz)

\* cls._list(path, tag), req being the GET of the path
list_request(cls, req, tag, reply, clock, tz) ==
    LET xml == request("GET", reply)
    IN  IF ~ IsOk(xml) THEN Did(xml, <<req>>)
        ELSE Did(list_loop(cls, iter(xml.val, Chars[tag]), 1, <<>>, clock, tz), <<req>>)

\* the GET that cls.get(id) issues
get_request(cls, id) ==
    CASE cls = "Deal" -> Request("GET", "/deals/{}.xml", <<id>>, <<>>)
      [] cls = "Task" -> Request("GET", "/tasks/{}.xml", <<id>>, <<>>)
      [] cls = "Case" -> Request("GET", "/kases/{}.xml", <<id>>, <<>>)
      [] OTHER -> Request("GET", "/{}/{}.xml", <<plural(cls), id>>, <<>>)

\* the tag cls.get(id) looks for in the answer
get_tag(cls) ==
    CASE cls = "Deal" -> "deal" [] cls = "Case" -> "kase" [] OTHER -> singular(cls)

\* for obj_xml in xml.iter(tag=...): the first element of the answer that
\* carries the class's tag, as <<element>>, or <<>> when there is none.
\* Case.get calls xml.getiterator, which only the interpreters before
\* Python 3.9 have (legacy).
get_found(cls, reply, legacy) ==
    LET xml == request("GET", reply)
        first(items) == IF items = <<>> THEN <<>> ELSE <<items[1]>>
    IN  IF ~ IsOk(xml) THEN xml
        ELSE IF cls = "Case" /\ ~ legacy THEN Raise("AttributeError")
        ELSE Ok(first(iter(xml.val, Chars[get_tag(cls)])))

\* return cls.from_xml(obj_xml) in the loop; None when the loop is empty
get_decode(cls, found, clock, tz) ==
    IF ~ IsOk(found) THEN found
    ELSE IF found.val = <<>> THEN Ok(None)
    ELSE from_xml(cls, found.val[1], clock, tz)

\* cls.get(id)
get(cls, id, reply, legacy, clock, tz) ==
    get_decode(cls, get_found(cls, reply, legacy), clock, tz)

\* the classes that define save() as a request to the server
SaveClasses == {"Note", "Email", "Deal", "Task", "Case", "Person", "Company"}
Parties == {"Party", "Person", "Company"}

\* self.__dict__ = new.__dict__, new being what the decoding returned
save_adopt(self, new, sent_) ==
    IF ~ IsOk(new) THEN Done(new, self, sent_)
    ELSE IF IsNone(new.val) THEN Done(Raise("AttributeError"), self, sent_)
    ELSE Done(Ok(None), PyObj(self.v.cls, new.val.v.d), sent_)

\* the two branches of save() after xml = self.save_xml(): a POST whose
\* answer is decoded (Party.save decodes it with Person.from_xml), or a PUT
\* followed by get(self.id) (Message.save calls it on the unbound name cls).
\* replies[1] answers the POST or the PUT, replies[2] the GET.
save_request(self, xml, replies, legacy, clock, tz) ==
    LET cls == self.v.cls
        id == self.v.d["id"]
        first == IsNone(id)
        post == CASE cls = "Deal" -> Request("POST", "/deals.xml", <<>>, <<xml.val>>)
                  [] cls = "Task" -> Request("POST", "/tasks.xml", <<>>, <<xml.val>>)
                  [] cls = "Case" -> Request("POST", "/kases.xml", <<>>, <<xml.val>>)
                  [] OTHER -> Request("POST", "/{}.xml", <<plural(cls)>>, <<xml.val>>)
        put == [get_request(cls, id) EXCEPT !.method = "PUT", !.xml = <<xml.val>>]
        response == request(IF first THEN "POST" ELSE "PUT", replies[1])
        refetch == ~ first /\ IsOk(response) /\ cls \notin {"Note", "Email"}
        found == IF ~ IsOk(response) THEN response
                 ELSE IF first THEN Ok(<<response.val>>)
                 ELSE IF ~ refetch THEN Raise("NameError")
                 ELSE get_found(cls, replies[2], legacy)
        sent_ == IF first THEN <<post>>
                 ELSE IF refetch THEN <<put, get_request(cls, id)>>
                 ELSE <<put>>
    IN  IF ~ IsOk(xml) THEN Done(xml, self, <<>>)
        ELSE IF "id" \notin DOMAIN self.v.d THEN Done(Raise("AttributeError"), self, <<>>)
        ELSE save_adopt(self,
                        get_decode(IF first /\ cls \in Parties THEN "Person" ELSE cls,
                                   found, clock, tz),
                        sent_)

\* self.save(): Message.save, Deal.save, Task.save, Case.save, Party.save
save(self, replies, legacy, clock, tz) ==
    save_request(self, save_xml(self, FALSE, clock, tz), replies, legacy, clock, tz)

\* Tag.add_to(subject, subject_id, name)
Tag_add_to(subject, subject_id, name, reply, clock, tz) ==
    LET xml == Element(Chars["name"], <<>>, <<name>>, <<>>)
        req == Request("POST", "{}/{}/tags.xml", <<subject, subject_id>>, <<xml>>)
        response == request("POST", reply)
    IN  IF ~ IsOk(response) THEN Did(response, <<req>>)
        ELSE Did(from_xml("Tag", response.val, clock, tz), <<req>>)

\* Tag.remove_from(subject, subject_id, tag_id)
Tag_remove_from(subject, subject_id, tag_id, reply) ==
    Did(request("DELETE", reply),
        <<Request("DELETE", "{}/{}/tags/{}.xml", <<subject, subject_id, tag_id>>, <<>>)>>)

\* the path of Message.filter(**{key: value}) and Task.filter(**{key: value})
kwarg_to_path(key) ==
    CASE key = "person" -> "people"
      [] key = "company" -> "companies"
      [] key = "kase" -> "kases"
      [] OTHER -> "deals"
filter_request(cls, key, value) ==
    Request("GET", "/{}/{}/{}.xml", <<kwarg_to_path(key), value, plural(cls)>>, <<>>)

\* Tag.get_by(subject, subject_id), and cls.filter(**{key: value}) for
\* Note, Email and Task: both end in cls._list(path, tag)
listing(cls, key, subject, id, reply, clock, tz) ==
    IF cls # "Tag" /\ key \notin {"person", "company", "kase", "deal"}
    THEN Did(Raise("KeyError"), <<>>)
    ELSE list_request(cls,
                      IF cls = "Tag" THEN Request("GET", "{}/{}/tags.xml", <<subject, id>>, <<>>)
                      ELSE filter_request(cls, key, id),
                      IF cls = "Tag" THEN "tag" ELSE singular(cls),
                      reply, clock, tz)

\* the result of message.save() as the result of add_note and add_email
add_saved(message, saved) ==
    IF ~ IsOk(message) THEN Did(message, <<>>) ELSE Did(saved.ret, saved.sent)

\* message = cls(**kwargs); message.save(), of add_note and add_email
add_message(cls, kwargs, reply, clock, tz) ==
    add_saved(Instantiate(cls, kwargs, clock),
              save(Instantiate(cls, kwargs, clock).val, <<reply, reply>>, TRUE, clock, tz))

\* the arguments the operations are called with
SampleName == <<"a">>
SampleTagId == PyInt(3)
NoteKwargs(id, subject_type) ==
    "body" :> PyStr(<<"a">>) @@ "subject_id" :> id @@ "subject_type" :> PyStr(Chars[subject_type])
EmailKwargs(id, subject_type) ==
    "title" :> PyStr(<<"b">>) @@ NoteKwargs(id, subject_type)

PartyOps == {"tags", "notes", "tasks", "emails", "add_tag", "remove_tag", "add_note", "add_email"}
DealOps == {"notes", "tasks", "emails", "add_note", "add_email"}

\* the class whose objects a reading property lists
listed(op) ==
    CASE op = "tags" -> "Tag" [] op = "notes" -> "Note" [] op = "tasks" -> "Task"
      [] OTHER -> "Email"

\* what the properties and methods of Party do once self.id is known not
\* to be None
party_body(self, op, reply, clock, tz) ==
    LET cls == self.v.cls
        id == self.v.d["id"]
    IN  IF op \in {"tags", "notes", "tasks", "emails"}
        THEN listing(listed(op), singular(cls), plural(cls), id, reply, clock, tz)
        ELSE IF op = "add_tag" THEN Tag_add_to(plural(cls), id, SampleName, reply, clock, tz)
        ELSE IF op = "remove_tag" THEN Tag_remove_from(plural(cls), id, SampleTagId, reply)
        ELSE add_message(IF op = "add_note" THEN "Note" ELSE "Email",
                         IF op = "add_note" THEN NoteKwargs(id, "Party")
                         ELSE EmailKwargs(id, "Party"),
                         reply, clock, tz)

\* the same with the sanity check of tags left out
party_op_tags_unchecked(self, op, reply, clock, tz) ==
    IF IsNone(self.v.d["id"]) /\ op # "tags" THEN Did(Raise("ElevatorError"), <<>>)
    ELSE party_body(self, op, reply, clock, tz)

\* Party.tags, notes, tasks, emails, add_tag, remove_tag, add_note,
\* add_email: each starts with the sanity check on self.id
party_op(self, op, reply, clock, tz) ==
    IF IsNone(self.v.d["id"]) THEN Did(Raise("ElevatorError"), <<>>)
    ELSE party_body(self, op, reply, clock, tz)

\* Deal.notes, tasks, emails, add_note, add_email
deal_op(self, op, reply, clock, tz) ==
    LET id == self.v.d["id"]
    IN  IF IsNone(id) THEN Did(Raise("ElevatorError"), <<>>)
        ELSE IF op \in {"notes", "tasks", "emails"}
        THEN listing(listed(op), "deal", "deals", id, reply, clock, tz)
        ELSE add_message(IF op = "add_note" THEN "Note" ELSE "Email",
                         IF op = "add_note" THEN NoteKwargs(id, "Deal")
                         ELSE EmailKwargs(id, "Deal"),
                         reply, clock, tz)

\* The answers of the server: the statuses, and for each class the
\* representations of a record it may send, with and without an id
Statuses == {200, 404}
BodyKids(cls) ==
    CASE cls = "Person" -> Tail(PersonKids)
      [] cls = "Company" -> CompanyKids
      [] cls = "Deal" -> << Leaf("name", <<>>, <<"a">>), Leaf("price", Integer, <<"5">>) >>
      [] cls = "Task" -> << Leaf("body", <<>>, <<"a">>), Leaf("public", Boolean, TrueText) >>
      [] cls = "Email" -> << Leaf("title", <<>>, <<"a">>), Leaf("body", <<>>, <<"b">>) >>
      [] cls = "Tag" -> << Leaf("name", <<>>, <<"a">>) >>
      [] cls = "Case" -> << Leaf("name", <<>>, <<"a">>) >>
      [] OTHER -> << Leaf("body", <<>>, <<"a">>), Leaf("subject_id", Integer, <<"5">>) >>
BodyRoot(cls, kids) ==
    IF cls = "Case" THEN Element(Kase, <<>>, <<WS>>, kids) ELSE ItemRoot(cls, kids)
Bodies(cls) == {BodyRoot(cls, BodyKids(cls)), BodyRoot(cls, <<IdLeaf>> \o BodyKids(cls))}
Lists(cls) ==
    LET tag == IF cls = "Tag" THEN "tags" ELSE plural(cls)
    IN  {Element(Chars[tag], Array, <<WS>>, <<>>)}
        \cup {Element(Chars[tag], Array, <<WS>>, <<b>>) : b \in Bodies(cls)}
Replies(bodies) ==
    {Reply(200, <<b>>) : b \in bodies}
    \cup {Reply(200, <<>>)} \cup {Reply(status, <<>>) : status \in Statuses \ {200}}
OpReplies(op) ==
    CASE op = "tags" -> Replies(Lists("Tag"))
      [] op = "notes" -> Replies(Lists("Note"))
      [] op = "tasks" -> Replies(Lists("Task"))
      [] op = "emails" -> Replies(Lists("Email"))
      [] op = "add_tag" -> Replies(Bodies("Tag"))
      [] op = "remove_tag" -> Replies({})
      [] op = "add_note" -> Replies(Bodies("Note"))
      [] OTHER -> Replies(Bodies("Email"))

\* the classes the caller makes records of
HeldClasses == SaveClasses \cup {"Party"}

\* the id the caller fetches a record by
SampleId == PyInt(7)

\* record = cls(**kwargs)
Create(cls, kwargs) ==
    /\ IsNone(rec)
    /\ \E r \in {Instantiate(cls, kwargs, now)} :
           /\ IsOk(r)
           /\ rec' = r.val
    /\ sent' = <<>>
    /\ last' = NoCall
    /\ UNCHANGED <<mvars, nm, cvars>>

\* record = cls.get(id)
Fetch(cls, reply, legacy) ==
    /\ IsNone(rec)
    /\ \E r \in {get(cls, SampleId, reply, legacy, now, tzoffset)} :
           /\ rec' = IF IsOk(r) THEN r.val ELSE None
           /\ last' = [self |-> None, ret |-> r, op |-> "get", replies |-> <<reply>>]
    /\ sent' = <<get_request(cls, SampleId)>>
    /\ UNCHANGED <<mvars, nm, cvars>>

\* record.save()
Save(replies, legacy) ==
    /\ ~ IsNone(rec)
    /\ rec.v.cls \in SaveClasses
    /\ \E r \in {save(rec, replies, legacy, now, tzoffset)} :
           /\ rec' = r.self
           /\ sent' = r.sent
           /\ last' = [self |-> rec, ret |-> r.ret, op |-> "save",
                       replies |-> SubSeq(replies, 1, Len(r.sent))]
    /\ UNCHANGED <<mvars, nm, cvars>>

\* record.tags, record.add_note(body), ... on a party
CallParty(op, reply) ==
    /\ ~ IsNone(rec)
    /\ rec.v.cls \in Parties
    /\ \E r \in {party_op(rec, op, reply, now, tzoffset)} :
           /\ sent' = r.sent
           /\ last' = [self |-> rec, ret |-> r.ret, op |-> op,
                       replies |-> SubSeq(<<reply>>, 1, Len(r.sent))]
    /\ UNCHANGED <<mvars, nm, cvars, rec>>

\* record.notes, record.add_note(body), ... on a deal
CallDeal(op, reply) ==
    /\ ~ IsNone(rec)
    /\ rec.v.cls = "Deal"
    /\ \E r \in {deal_op(rec, op, reply, now, tzoffset)} :
           /\ sent' = r.sent
           /\ last' = [self |-> rec, ret |-> r.ret, op |-> op,
                       replies |-> SubSeq(<<reply>>, 1, Len(r.sent))]
    /\ UNCHANGED <<mvars, nm, cvars, rec>>

\* the caller lets go of the record
Drop ==
    /\ ~ IsNone(rec)
    /\ rec' = None
    /\ sent' = <<>>
    /\ last' = NoCall
    /\ UNCHANGED <<mvars, nm, cvars>>

\* the kwargs the records are created with
CreateKwargs(cls) ==
    {NoKwargs} \cup {Fields(cls)[i].name :> SampleValue(Fields(cls)[i], 1, now) :
                        i \in {j \in 1..Len(Fields(cls)) : Fields(cls)[j].type = "str"}}

NextTransport ==
    \/ IsNone(rec) /\ \E cls \in HeldClasses : \E kwargs \in CreateKwargs(cls) : Create(cls, kwargs)
    \/ IsNone(rec) /\ \E cls \in SaveClasses : \E reply \in Replies(Bodies(cls)) :
                        \E legacy \in IF cls = "Case" THEN BOOLEAN ELSE {TRUE} :
                           Fetch(cls, reply, legacy)
    \/ ~ IsNone(rec) /\ rec.v.cls \in SaveClasses /\
          \E r1 \in Replies(Bodies(rec.v.cls)) :
             \E r2 \in IF IsNone(rec.v.d["id"]) THEN {r1} ELSE Replies(Bodies(rec.v.cls)) :
                \E legacy \in IF rec.v.cls = "Case" THEN BOOLEAN ELSE {TRUE} :
                   Save(<<r1, r2>>, legacy)
    \/ ~ IsNone(rec) /\ rec.v.cls \in Parties /\ \E op \in PartyOps : \E reply \in OpReplies(op) : CallParty(op, reply)
    \/ ~ IsNone(rec) /\ rec.v.cls = "Deal" /\ \E op \in DealOps : \E reply \in OpReplies(op) : CallDeal(op, reply)
    \/ Drop

SpecTransport == Init /\ [][NextTransport]_vars

----------------------------------------------------------------------------
(* Properties of the round trip through save_xml and from_xml              *)

\* the record that was constructed has been encoded with its id, and the
\* element returned has been decoded as the same class
RoundTripped ==
    /\ IsOk(made.ret)
    /\ enc.self = made.ret.val
    /\ enc.include_id
    /\ IsOk(enc.ret)
    /\ dec.cls = made.cls
    /\ dec.xml = enc.ret.val

\* the editable int and str fields of cls that kwargs supplies
ScalarKwargs(cls, kwargs) ==
    {f \in DOMAIN kwargs : HasKey(Fields(cls), f) /\ Lookup(Fields(cls), f).type \in {"int", "str"}}

\* C1: after cls(**kwargs) with values for editable int and str fields,
\* cls.from_xml(record.save_xml(include_id=True)) returns a record holding,
\* for each of those fields, the value supplied, an int as an int and a str
\* as a str.
C1_ScalarRoundTrip ==
    RoundTripped =>
        /\ IsOk(dec.ret)
        /\ \A f \in ScalarKwargs(made.cls, made.kwargs) :
              dec.ret.val.v.d[f] = made.kwargs[f]

\* C2: save_xml on a record made by cls() without keyword arguments returns
\* an element without children (the id of such a record is None, so no id
\* child either).
C2_FreshRecordHasNoChildren ==
    (/\ IsOk(made.ret)
     /\ made.kwargs = NoKwargs
     /\ enc.self = made.ret.val
     /\ IsOk(enc.ret))
        => enc.ret.val.kids = <<>>

\* the list fields of the encoded record that hold at least one record
FilledLists(self) ==
    {i \in 1..Len(Fields(self.v.cls)) :
        LET settings == Fields(self.v.cls)[i]
        IN  /\ settings.type = "list"
            /\ self.v.d[settings.name].t = "list"
            /\ Len(self.v.d[settings.name].v) >= 1}

\* the tag save_xml gives the element of a field
FieldTag(settings) ==
    IF settings.force_key = <<>> THEN replace(Chars[settings.name], "_", <<"-">>)
    ELSE settings.force_key[1]

\* the children of xml with the tag of the field
FieldElements(xml, settings) ==
    {k \in 1..Len(xml.kids) : xml.kids[k].tag = FieldTag(settings)}

\* C3: the element save_xml returns has, for a list field holding the
\* records r1..rn (n >= 1), one field element with exactly n children, the
\* i-th being ri.save_xml(include_id=True).
C3_ListEncodedInOrder ==
    (IsOk(enc.ret) /\ IsRecord(enc.self)) =>
        \A i \in FilledLists(enc.self) :
            LET settings == Fields(enc.self.v.cls)[i]
                items == enc.self.v.d[settings.name].v
            IN  \E k \in FieldElements(enc.ret.val, settings) :
                    /\ Len(enc.ret.val.kids[k].kids) = Len(items)
                    /\ \A j \in 1..Len(items) :
                          \E clock \in StartClock..now :
                              Ok(enc.ret.val.kids[k].kids[j])
                                  = save_xml(items[j], TRUE, clock, tzoffset)

\* the list fields that kwargs supplies with two records
PairKwargs(cls, kwargs) ==
    {f \in DOMAIN kwargs :
        /\ HasKey(Fields(cls), f)
        /\ Lookup(Fields(cls), f).type = "list"
        /\ kwargs[f].t = "list"
        /\ Len(kwargs[f].v) = 2}

\* C4: after cls(**kwargs) with a list of two records for a list field,
\* cls.from_xml(record.save_xml(include_id=True)) returns a record whose
\* list holds two records of the same classes and the same field values,
\* in the same order.
C4_ListRoundTrip ==
    RoundTripped =>
        \A f \in PairKwargs(made.cls, made.kwargs) :
            /\ IsOk(dec.ret)
            /\ dec.ret.val.v.d[f].t = "list"
            /\ Len(dec.ret.val.v.d[f].v) = 2
            /\ \A j \in 1..2 :
                  /\ dec.ret.val.v.d[f].v[j].v.cls = made.kwargs[f].v[j].v.cls
                  /\ dec.ret.val.v.d[f].v[j].v.d = made.kwargs[f].v[j].v.d

\* the class whose schema from_xml(cls, xml) reads
KindOf(cls, xml) ==
    IF IsOk(from_xml_class(cls, xml)) THEN Resolved(from_xml_class(cls, xml)) ELSE "none"

\* the child is tagged with a key the class declares
Declared(cls, child) == HasKeyStr(Fields(cls), replace(child.tag, "-", <<"_">>))

\* the i-th child of the decoded element is the one undeclared child of it,
\* and the element without that child decodes to a record
OneUndeclared(i) ==
    /\ KindOf(dec.cls, dec.xml) \in RecordClasses
    /\ ~ Declared(KindOf(dec.cls, dec.xml), dec.xml.kids[i])
    /\ \A j \in 1..Len(dec.xml.kids) :
          j # i => Declared(KindOf(dec.cls, dec.xml), dec.xml.kids[j])
    /\ IsOk(from_xml(dec.cls, RemoveChild(dec.xml, i), dec.clock, dec.tz))

\* C5: from_xml on an element with one undeclared child among declared
\* ones, at any position and with any content, returns what from_xml
\* returns for the element without that child.
C5_UndeclaredChildIgnored ==
    \A i \in 1..Len(dec.xml.kids) :
        OneUndeclared(i) =>
            dec.ret = from_xml(dec.cls, RemoveChild(dec.xml, i), dec.clock, dec.tz)

\* an undeclared child that has children of its own was skipped, ahead of
\* declared children that set fields
C5_Witness ==
    /\ Len(dec.xml.kids) >= 3
    /\ OneUndeclared(1)
    /\ Len(dec.xml.kids[1].kids) > 0
    /\ IsOk(dec.ret)
    /\ dec.ret.val.v.d # Instantiate(dec.ret.val.v.cls, NoKwargs, dec.clock).val.v.d

\* the discriminators a party element carries, as attribute or as child
Discriminators(xml) ==
    {xml.type[k] : k \in 1..Len(xml.type)}
        \cup {xml.kids[k].text[1] :
                k \in {j \in 1..Len(xml.kids) :
                         xml.kids[j].tag = Chars["type"] /\ xml.kids[j].text # <<>>}}

\* C6: Party.from_xml on an element tagged party whose type attribute or
\* type child names Person or Company returns a record of that class.
C6_PartyResolved ==
    \A K \in {"Person", "Company"} :
        (/\ dec.cls = "Party"
         /\ dec.xml.tag = Chars["party"]
         /\ Discriminators(dec.xml) = {Chars[K]})
            => /\ IsOk(dec.ret)
               /\ dec.ret.val.t = "obj"
               /\ dec.ret.val.v.cls = K

\* the fields kwargs supplies that cls declares with the type id or
\* uneditable
ImmutableKwargs(cls, kwargs) ==
    {f \in DOMAIN kwargs :
        HasKey(Fields(cls), f) /\ Lookup(Fields(cls), f).type \in {"id", "uneditable"}}

\* C7: cls(**kwargs) with a value for a field of type id or uneditable
\* raises KeyError and returns no record, whatever else kwargs supplies.
C7_ImmutableFieldRaises ==
    (made.cls \in RecordClasses /\ ImmutableKwargs(made.cls, made.kwargs) # {})
        => made.ret = Raise("KeyError")

\* an uneditable field was supplied together with an editable one that the
\* dictionary lists before it
C7_Witness ==
    /\ made.cls \in RecordClasses
    /\ made.ret = Raise("KeyError")
    /\ \E i, j \in 1..Len(Fields(made.cls)) :
          /\ i < j
          /\ DOMAIN made.kwargs = {Fields(made.cls)[i].name, Fields(made.cls)[j].name}
          /\ Fields(made.cls)[i].type \notin {"id", "uneditable"}
          /\ Fields(made.cls)[j].type = "uneditable"

\* the children of the decoded element that are datetime leaves of a
\* declared field holding a timestamp as strftime writes it, and that no
\* later child of the same tag overrides
TimestampLeaves ==
    {i \in 1..Len(dec.xml.kids) :
        LET child == dec.xml.kids[i]
        IN  /\ KindOf(dec.cls, dec.xml) \in RecordClasses
            /\ Declared(KindOf(dec.cls, dec.xml), child)
            /\ child.type = DateTime
            /\ child.text # <<>>
            /\ child.kids = <<>>
            /\ IsOk(strptime(child.text[1]))
            /\ strftime(strptime(child.text[1]).val.v) = child.text[1]
            /\ \A j \in (i + 1)..Len(dec.xml.kids) : dec.xml.kids[j].tag # child.tag}

\* the field a child sets
FieldOf(child) ==
    Lookup(Fields(KindOf(dec.cls, dec.xml)),
           KeyOfStr(Fields(KindOf(dec.cls, dec.xml)), replace(child.tag, "-", <<"_">>)))

\* the decoded record has been encoded
ReEncoded == IsOk(dec.ret) /\ enc.self = dec.ret.val /\ IsOk(enc.ret)

\* C8: under the offset h, from_xml sets the field of a datetime leaf t to
\* t + h hours, to_utc and strftime turn that value back into t, and
\* save_xml under the same offset emits the leaf of an editable field with
\* the text t.
C8_TimestampOffsetRoundTrip ==
    \A i \in TimestampLeaves :
        LET child == dec.xml.kids[i]
            t == child.text[1]
            field == FieldOf(child)
        IN  IsOk(dec.ret) =>
              /\ dec.ret.val.v.d[field.name]
                    = PyDatetime(strptime(t).val.v + dec.tz * SubTicks)
              /\ strftime(to_utc(dec.ret.val.v.d[field.name].v, dec.tz)) = t
              /\ (ReEncoded /\ is_editable(field)) =>
                    \E k \in FieldElements(enc.ret.val, field) :
                        enc.ret.val.kids[k].text = <<t>>

\* a timestamp decoded under a negative offset that moves it to the day
\* before, and encoded again
C8_Witness ==
    /\ ReEncoded
    /\ dec.tz < 0
    /\ tzoffset = dec.tz
    /\ \E i \in TimestampLeaves :
          /\ is_editable(FieldOf(dec.xml.kids[i]))
          /\ dec.ret.val.v.d[FieldOf(dec.xml.kids[i]).name].v \div TicksPerDay
                < strptime(dec.xml.kids[i].text[1]).val.v \div TicksPerDay

\* a wire key: words of lowercase letters joined by single hyphens
IsWireKey(x) ==
    /\ Len(x) >= 1
    /\ \A i \in 1..Len(x) : IsLower(x[i]) \/ x[i] = "-"
    /\ x[1] # "-" /\ x[Len(x)] # "-"
    /\ \A i \in 1..(Len(x) - 1) : ~ (x[i] = "-" /\ x[i + 1] = "-")

\* C9: for a wire key x, key_to_class(x) returns a name, and
\* class_to_key(key_to_class(x)) returns x.
C9_NameRoundTrip ==
    /\ (nm.fn = "key_to_class" /\ IsWireKey(nm.arg)) => IsOk(nm.ret)
    /\ (nm.fn = "class_to_key" /\ nm.from # <<>> /\ IsWireKey(nm.from[1]))
          => nm.ret = Ok(PyStr(nm.from[1]))

\* a key of three words went through both conversions
C9_Witness ==
    /\ nm.fn = "class_to_key"
    /\ nm.from # <<>>
    /\ IsWireKey(nm.from[1])
    /\ Cardinality({i \in 1..Len(nm.from[1]) : nm.from[1][i] = "-"}) = 2
    /\ nm.ret = Ok(PyStr(nm.from[1]))

\* C10: a call that ran interleaved with the calls of other threads
\* returns what it returns when it runs alone.
C10_InterleavedAsAlone ==
    \A t \in Threads :
        thread[t].pc = "done" =>
            thread[t].ret = Alone([cls |-> thread[t].cls, xml |-> thread[t].xml,
                                   op |-> thread[t].op])

\* a party element whose type attribute is missing or names no
\* HighriseObject subclass with fields
Unresolvable(xml) ==
    \/ xml.type = <<>>
    \/ \A K \in RecordClasses : xml.type # <<Chars[K]>>

\* C11: Party.from_xml on an element whose type attribute is missing or
\* names no record class raises; it returns no value.
C11_UnresolvedKindRaises ==
    (dec.cls = "Party" /\ Unresolvable(dec.xml)) => ~ IsOk(dec.ret)

\* the names of the fields a class declares
FieldNames(cls) == {Fields(cls)[i].name : i \in 1..Len(Fields(cls))}

\* C12: after cls(**kwargs) has returned a record, the record has exactly
\* the declared fields as attributes, each holding the keyword's value if
\* one was given and the default of the field (at some reading of the
\* clock up to now) otherwise; an undeclared keyword is no attribute.
C12_ConstructionSchemaClosed ==
    (made.cls \in RecordClasses /\ IsOk(made.ret)) =>
        /\ made.ret.val.v.cls = made.cls
        /\ DOMAIN made.ret.val.v.d = FieldNames(made.cls)
        /\ \A i \in 1..Len(Fields(made.cls)) :
              LET settings == Fields(made.cls)[i]
                  value == made.ret.val.v.d[settings.name]
              IN  IF settings.name \in DOMAIN made.kwargs
                  THEN value = made.kwargs[settings.name]
                  ELSE \E clock \in StartClock..now : value = default(settings, clock)

\* a record was made from a declared keyword and an undeclared one
C12_Witness ==
    /\ made.cls \in RecordClasses
    /\ IsOk(made.ret)
    /\ Cardinality(DOMAIN made.kwargs) = 2
    /\ Cardinality(DOMAIN made.kwargs \ FieldNames(made.cls)) = 1
    /\ \E f \in DOMAIN made.kwargs \cap FieldNames(made.cls) :
          made.ret.val.v.d[f] = made.kwargs[f]

\* the readings of the clock
Clocks == StartClock..(StartClock + MaxClock)

\* C13: from_xml returns what it returns for the same element at any other
\* reading of the clock, and so does save_xml for the same record.
C13_ClockIndependent ==
    /\ dec.cls # "none" =>
          \A clock \in Clocks : dec.ret = from_xml(dec.cls, dec.xml, clock, dec.tz)
    /\ IsRecord(enc.self) =>
          \A clock \in Clocks : enc.ret = save_xml(enc.self, enc.include_id, clock, tzoffset)

\* the id the encoded record holds, if save_xml was asked to include it
HasId(self) == "id" \in DOMAIN self.v.d /\ self.v.d["id"] # None

\* the position in the dictionary of the field whose element has the tag
\* (0 if there is none)
FieldIndex(cls, tag) ==
    IF \E i \in 1..Len(Fields(cls)) : FieldTag(Fields(cls)[i]) = tag
    THEN CHOOSE i \in 1..Len(Fields(cls)) : FieldTag(Fields(cls)[i]) = tag
    ELSE 0

\* C14: in the element save_xml returns, the id leaf (when include_id is
\* set and the id is not None) is the first child, and the elements of the
\* fields come after it in the order of the fields dictionary.
C14_IdFirstThenSchemaOrder ==
    (IsRecord(enc.self) /\ IsOk(enc.ret)) =>
        LET kids == enc.ret.val.kids
            cls == enc.self.v.cls
            first == IF enc.include_id /\ HasId(enc.self) THEN 1 ELSE 0
        IN  /\ first = 1 => (Len(kids) >= 1 /\ kids[1].tag = Chars["id"]
                                            /\ kids[1].type = Integer)
            /\ \A j, k \in (first + 1)..Len(kids) :
                  j < k => FieldIndex(cls, kids[j].tag) < FieldIndex(cls, kids[k].tag)

\* the fields of a class declared with the type id or uneditable
Immutable(cls) ==
    {i \in 1..Len(Fields(cls)) : Fields(cls)[i].type \in {"id", "uneditable"}}

\* the child is the id leaf save_xml adds on request
IsIdLeaf(child) ==
    /\ child.tag = Chars["id"]
    /\ child.type = Integer
    /\ child.kids = <<>>
    /\ enc.include_id
    /\ HasId(enc.self)
    /\ child.text = <<text_type(enc.self.v.d["id"])>>

\* C15: save_xml on any record that was constructed or decoded returns an
\* element; no child of it is the element of a field of type id or
\* uneditable, whatever those fields hold, except one id leaf when
\* include_id is set and the id is not None.
C15_ImmutableFieldsNotEmitted ==
    IsRecord(enc.self) =>
        /\ IsOk(enc.ret)
        /\ \A k \in 1..Len(enc.ret.val.kids) :
              (\E i \in Immutable(enc.self.v.cls) :
                    enc.ret.val.kids[k].tag = FieldTag(Fields(enc.self.v.cls)[i]))
                 => IsIdLeaf(enc.ret.val.kids[k])
        /\ Cardinality({k \in 1..Len(enc.ret.val.kids) :
                            enc.ret.val.kids[k].tag = Chars["id"]})
              = IF enc.include_id /\ HasId(enc.self) THEN 1 ELSE 0

\* a decoded record holding an id and a value in an uneditable field was
\* encoded with its id, and with an editable field beside it
C15_Witness ==
    /\ ReEncoded
    /\ enc.include_id
    /\ HasId(enc.self)
    /\ \E i \in Immutable(enc.self.v.cls) :
          /\ Fields(enc.self.v.cls)[i].type = "uneditable"
          /\ enc.self.v.d[Fields(enc.self.v.cls)[i].name] # None
    /\ Len(enc.ret.val.kids) >= 2
    /\ \E k \in 1..Len(enc.ret.val.kids) : IsIdLeaf(enc.ret.val.kids[k])

\* the children of the decoded element that set a declared field: those
\* of a declared tag that no later child of the same tag overrides
SettingChildren ==
    {i \in 1..Len(dec.xml.kids) :
        /\ KindOf(dec.cls, dec.xml) \in RecordClasses
        /\ Declared(KindOf(dec.cls, dec.xml), dec.xml.kids[i])
        /\ \A j \in (i + 1)..Len(dec.xml.kids) : dec.xml.kids[j].tag # dec.xml.kids[i].tag}

\* C16: in the record from_xml returns, the field of a list child with
\* n >= 1 sub-children that decode, with or without text of its own, is the
\* list of the n records they decode to, in the order of the sub-children.
C16_ListChildDecoded ==
    IsOk(dec.ret) =>
        \A i \in SettingChildren :
            LET child == dec.xml.kids[i]
                items == from_xml_items(child, 1, <<>>, dec.clock, dec.tz)
            IN  (/\ FieldOf(child).type = "list"
                 /\ Len(child.kids) >= 1
                 /\ IsOk(items))
                    => /\ dec.ret.val.v.d[FieldOf(child).name] = items.val
                       /\ Len(dec.ret.val.v.d[FieldOf(child).name].v) = Len(child.kids)

\* the children that are leaves with text, of a field other than
\* contact_data (which from_xml decodes by its key, before it reads a type)
ScalarLeaves ==
    {i \in SettingChildren :
        /\ dec.xml.kids[i].text # <<>>
        /\ dec.xml.kids[i].kids = <<>>
        /\ FieldOf(dec.xml.kids[i]).name # "contact_data"}

\* C17: in the record from_xml returns, the field of a leaf with text is
\* int(text) if the leaf's type attribute is integer, the parsed timestamp
\* plus the offset hours if it is datetime, and the text itself under any
\* other or no type attribute, whatever type the field is declared with.
C17_LeafCoercedByWireType ==
    IsOk(dec.ret) =>
        \A i \in ScalarLeaves :
            LET child == dec.xml.kids[i]
                value == dec.ret.val.v.d[FieldOf(child).name]
            IN  IF child.type = Integer
                THEN IsOk(int(child.text[1])) /\ value = int(child.text[1]).val
                ELSE IF child.type = DateTime
                THEN /\ IsOk(strptime(child.text[1]))
                     /\ value = PyDatetime(strptime(child.text[1]).val.v + dec.tz * SubTicks)
                ELSE value = PyStr(child.text[1])

\* a leaf without a type attribute set a field declared int to its text,
\* and a leaf of type integer set a field not declared int to an int
C17_Witness ==
    /\ IsOk(dec.ret)
    /\ \E i \in ScalarLeaves :
          /\ dec.xml.kids[i].type = <<>>
          /\ FieldOf(dec.xml.kids[i]).type = "int"
          /\ dec.ret.val.v.d[FieldOf(dec.xml.kids[i]).name].t = "str"
    /\ \E i \in ScalarLeaves :
          /\ dec.xml.kids[i].type = Integer
          /\ FieldOf(dec.xml.kids[i]).type # "int"
          /\ dec.ret.val.v.d[FieldOf(dec.xml.kids[i]).name].t = "int"

\* the value is of the type the field is declared with (a field of type
\* id or uneditable declares none)
OfDeclaredType(settings, value) ==
    CASE settings.type \in {"id", "uneditable"} -> TRUE
      [] settings.type = "list" ->
            value.t = "list" /\ \A j \in 1..Len(value.v) : IsRecord(value.v[j])
      [] settings.type = "ContactData" ->
            value.t = "obj" /\ value.v.cls = "ContactData"
      [] OTHER -> value.t = settings.type

\* every attribute of the record that is a declared field is of the
\* field's type
TypeConsistent(r) ==
    (IsOk(r) /\ IsRecord(r.val)) =>
        \A i \in 1..Len(Fields(r.val.v.cls)) :
            LET settings == Fields(r.val.v.cls)[i]
            IN  settings.name \in DOMAIN r.val.v.d
                    => OfDeclaredType(settings, r.val.v.d[settings.name])

\* C18: in every record that cls(**kwargs) or from_xml returned, each
\* declared field holds a value of the type it is declared with.
C18_TypeConsistent == TypeConsistent(made.ret) /\ TypeConsistent(dec.ret)

\* C19: in every state each class has a fields dictionary, and it holds
\* the fields the class declares, each with its type; no call changes it.
C19_SchemaImmutable ==
    \A c \in ConcClasses :
        /\ cls_fields[c] # 0
        /\ DictFields(cls_fields[c]) = Fields(c)

\* C20: key_to_class and class_to_key return a string for every string of
\* lowercase letters, uppercase letters, digits and hyphens.
C20_NamesNeverRaise ==
    nm.fn \in {"key_to_class", "class_to_key"} =>
        /\ IsOk(nm.ret)
        /\ nm.ret.val.t = "str"

-----------------------------------------------------------------------------
(* Properties of the operations that talk to the server                    *)

\* the last operation was record.save() and the transport succeeded: every
\* request it issued was answered with status 200, and the answer to the
\* POST, or to the GET of the re-fetch, is a document
SavedOverTransport ==
    /\ last.op = "save"
    /\ Len(last.replies) >= 1
    /\ \A i \in 1..Len(last.replies) : last.replies[i].status = 200
    /\ last.replies[Len(last.replies)].body # <<>> \/ Len(last.replies) = 1
    /\ IsNone(last.self.v.d["id"]) => last.replies[1].body # <<>>

\* the methods of the requests the last operation issued
SentMethods == [i \in 1..Len(sent) |-> sent[i].method]

\* the server's representation the save adopts, decoded as the class of the
\* record that was saved
OwnDecoding ==
    from_xml(last.self.v.cls, last.replies[Len(last.replies)].body[1], now, tzoffset)

\* C21: when the transport succeeds, save() on a Note, Email, Deal, Task,
\* Case, Person or Company returns without raising; a record whose id is
\* None has issued exactly one POST, a record with an id exactly one PUT
\* and then one GET; and the record holds the attributes of the answer (to
\* the POST, or to the GET) decoded as the record's own class.
C21_SaveAdoptsServerRecord ==
    SavedOverTransport =>
        /\ IsOk(last.ret)
        /\ SentMethods = IF IsNone(last.self.v.d["id"]) THEN <<"POST">> ELSE <<"PUT", "GET">>
        /\ Len(last.replies) = Len(sent)
        /\ IsOk(OwnDecoding)
        /\ rec.v.cls = last.self.v.cls
        /\ rec.v.d = OwnDecoding.val.v.d

\* the last operation was one of the operations of a Party or a Deal that
\* address the record by its id, on a record that has not been saved
CalledUnsaved ==
    /\ \/ last.op \in PartyOps /\ last.self.v.cls \in Parties
       \/ last.op \in DealOps /\ last.self.v.cls = "Deal"
    /\ IsNone(last.self.v.d["id"])

\* C22: reading tags, notes, tasks or emails of a Party whose id is None,
\* or calling add_tag, remove_tag, add_note or add_email on it, and reading
\* notes, tasks or emails of a Deal whose id is None, or calling add_note
\* or add_email on it, raises ElevatorError, hands no request to the
\* transport and leaves the record as it was.
C22_UnsavedNeverRequests ==
    CalledUnsaved =>
        /\ last.ret = Raise("ElevatorError")
        /\ sent = <<>>
        /\ rec = last.self

\* an unsaved Company has been asked for its tags
C22_Witness ==
    /\ CalledUnsaved
    /\ last.op = "tags"
    /\ last.self.v.cls = "Company"
    /\ rec = last.self

====
